---- MODULE Spec2Model ----
(***************************************************************************)
(* A model of crates/turbo-tasks-fs/src/rope.rs: the immutable byte rope   *)
(* (Rope / InnerRope / RopeElem), its RopeBuilder with the Uncommitted     *)
(* pending region, and the RopeReader with its four consumption modes.     *)
(*                                                                         *)
(* Arc<Box<[RopeElem]>> values live in the heap `stores`; a Shared element *)
(* and a Shared stack frame hold the index of the store they reference.    *)
(* A Vec used as a stack keeps its top at the end of the sequence.         *)
(*                                                                         *)
(* And a model of crates/turbopack-ecmascript/src/path_visitor.rs: the     *)
(* ApplyVisitors traversal that runs each registered visitor on the node   *)
(* its AstPath leads to. A node is named by its path from the root.        *)
(***************************************************************************)
EXTENDS Integers, Sequences, FiniteSets, TLC

VARIABLES
    stores,     \* heap of segment stores: Seq(Seq(RopeElem))
    ropes,      \* the Rope values built so far: Seq([length, data])
    builder,    \* the RopeBuilder under construction (live = FALSE: none)
    pushed,     \* history: the bytes the live builder accepted, in call order
    fuel,       \* what the run may still do: byte-accepting calls, new ropes
    reader,     \* the RopeReader in use (live = FALSE: none)
    delivered,  \* history: the bytes the reader handed out, in call order
    made,       \* history: how each rope was made and from which bytes
    last,       \* the last operation, its arguments and what it returned
    panicked,   \* "" or the message of the panic that ended the program
    visit       \* the tree, the registered visitors and the visitors run so far

vars == <<stores, ropes, builder, pushed, fuel, reader, delivered, made, last,
          panicked, visit>>

----------------------------------------------------------------------------
(* Bounds of the model *)

\* builder runs (Spec)
MaxRopes == 2
MaxCalls == 3
\* ropes that are compared, hashed and opened for reading (SpecObs)
MaxRopesObs == 3
MaxCallsObs == 4
\* ropes that a reader walks step by step (SpecRead)
MaxRopesRead == 2
MaxCallsRead == 3
MaxWant == 3
\* ropes that are converted to strings and serialized (SpecStr)
MaxRopesStr == 3
MaxCallsStr == 3
\* a rope shared by two readers and a builder (SpecShare)
MaxRopesShare == 2
MaxCallsShare == 4
MaxWantShare == 2
\* the depth of the visited tree and of the registered paths (SpecVisit)
MaxDepth == 3

(* mem::size_of::<Bytes>(): four usizes, 32 bytes on a 64-bit target *)
BytesSize == 32

Lit(n) == [i \in 1..n |-> 98]

(* byte buffers handed to push_bytes / write / From<Vec<u8>> / Rope::from *)
OwnedInputs == {<<>>, <<97>>, <<98>>}
(* 'static byte strings handed to push_static_bytes / += / From<&'static str> *)
StaticInputs == {<<>>, <<97>>, Lit(BytesSize - 1), Lit(BytesSize)}

----------------------------------------------------------------------------
(* Data: Bytes, RopeElem, InnerRope, Rope *)

\* Bytes::from(Vec<u8>) owns its buffer; Bytes::from(&'static [u8]) aliases it
Bytes_from_vec(v) == [b |-> v, mem |-> "owned"]
Bytes_from_static(s) == [b |-> s, mem |-> "static"]

Local(bytes) == [t |-> "Local", b |-> bytes.b, mem |-> bytes.mem]
Shared(id) == [t |-> "Shared", r |-> id]

\* The byte sequence an InnerRope stands for: its leaves in in-order traversal
RECURSIVE FlatElems(_)
FlatElems(els) ==
    IF els = <<>> THEN <<>>
    ELSE LET el == Head(els)
         IN  (IF el.t = "Local" THEN el.b ELSE FlatElems(stores[el.r]))
                 \o FlatElems(Tail(els))

Flat(id) == FlatElems(stores[id])

\* The leaves of an InnerRope in in-order traversal, boundaries kept
RECURSIVE LeavesElems(_)
LeavesElems(els) ==
    IF els = <<>> THEN <<>>
    ELSE LET el == Head(els)
         IN  (IF el.t = "Local" THEN <<el.b>> ELSE LeavesElems(stores[el.r]))
                 \o LeavesElems(Tail(els))

Leaves(id) == LeavesElems(stores[id])

----------------------------------------------------------------------------
(* Uncommitted *)

Uncommitted_None == [t |-> "None", b |-> <<>>]

\* len that counts owned bytes only
Uncommitted_len_owned_only(u) == IF u.t = "Owned" THEN Len(u.b) ELSE 0

Uncommitted_len(u) ==
    CASE u.t = "None" -> 0
      [] u.t = "Static" -> Len(u.b)
      [] u.t = "Owned" -> Len(u.b)

\* push_bytes that replaces a static hold instead of concatenating onto it
Uncommitted_push_bytes_dropping_static(u, bytes) ==
    CASE u.t = "None" -> [t |-> "Owned", b |-> bytes]
      [] u.t = "Static" -> [t |-> "Owned", b |-> bytes]
      [] u.t = "Owned" -> [t |-> "Owned", b |-> u.b \o bytes]

Uncommitted_push_bytes(u, bytes) ==
    CASE u.t = "None" -> [t |-> "Owned", b |-> bytes]
      [] u.t = "Static" -> [t |-> "Owned", b |-> u.b \o bytes]
      [] u.t = "Owned" -> [t |-> "Owned", b |-> u.b \o bytes]

\* push_static_bytes that copies the first static string instead of holding it
Uncommitted_push_static_bytes_copying(u, bytes) ==
    Uncommitted_push_bytes(u, bytes)

Uncommitted_push_static_bytes(u, bytes) ==
    IF u.t = "None" THEN [t |-> "Static", b |-> bytes]
    ELSE Uncommitted_push_bytes(u, bytes)

\* finish that reads the region without taking it
Uncommitted_finish_keeping(u) ==
    CASE u.t = "None" -> [u |-> u, some |-> FALSE, bytes |-> Bytes_from_vec(<<>>)]
      [] u.t = "Static" -> [u |-> u, some |-> TRUE, bytes |-> Bytes_from_static(u.b)]
      [] u.t = "Owned" -> [u |-> u, some |-> TRUE, bytes |-> Bytes_from_vec(u.b)]

\* mem::take(self): the region is None afterwards; returns Option<Bytes>
Uncommitted_finish(u) ==
    CASE u.t = "None" -> [u |-> Uncommitted_None, some |-> FALSE, bytes |-> Bytes_from_vec(<<>>)]
      [] u.t = "Static" -> [u |-> Uncommitted_None, some |-> TRUE, bytes |-> Bytes_from_static(u.b)]
      [] u.t = "Owned" -> [u |-> Uncommitted_None, some |-> TRUE, bytes |-> Bytes_from_vec(u.b)]

\* From<Vec<u8>> that keeps an empty buffer as owned scratch
Uncommitted_from_vec_keeping_empty(bytes) == [t |-> "Owned", b |-> bytes]

Uncommitted_from_vec(bytes) ==
    IF bytes = <<>> THEN Uncommitted_None ELSE [t |-> "Owned", b |-> bytes]

----------------------------------------------------------------------------
(* RopeBuilder *)

NoBuilder ==
    [live |-> FALSE, length |-> 0, committed |-> <<>>,
     uncommited |-> Uncommitted_None, panic |-> ""]

RopeBuilder_default ==
    [live |-> TRUE, length |-> 0, committed |-> <<>>,
     uncommited |-> Uncommitted_None, panic |-> ""]

DebugAssert(cond, msg, panic) == IF panic = "" /\ ~cond THEN msg ELSE panic

\* finish that commits the leaf without counting its bytes
RopeBuilder_finish_no_length(b) ==
    LET f == Uncommitted_finish(b.uncommited)
    IN  IF f.some
        THEN [b EXCEPT !.uncommited = f.u,
                       !.committed = Append(@, Local(f.bytes))]
        ELSE [b EXCEPT !.uncommited = f.u]

RopeBuilder_finish(b) ==
    LET f == Uncommitted_finish(b.uncommited)
    IN  IF f.some
        THEN [b EXCEPT !.uncommited = f.u,
                       !.panic = DebugAssert(f.bytes.b # <<>>,
                                     "must not have empty uncommitted bytes", @),
                       !.length = @ + Len(f.bytes.b),
                       !.committed = Append(@, Local(f.bytes))]
        ELSE [b EXCEPT !.uncommited = f.u]

\* push_bytes without the early return on an empty buffer
RopeBuilder_push_bytes_no_guard(b, bytes) ==
    [b EXCEPT !.uncommited = Uncommitted_push_bytes(@, bytes)]

RopeBuilder_push_bytes(b, bytes) ==
    IF bytes = <<>> THEN b
    ELSE [b EXCEPT !.uncommited = Uncommitted_push_bytes(@, bytes)]

\* push_static_bytes that still keeps a string of exactly the threshold pending
RopeBuilder_push_static_bytes_above(b, bytes) ==
    IF bytes = <<>> THEN b
    ELSE IF Len(bytes) <= BytesSize
    THEN [b EXCEPT !.uncommited = Uncommitted_push_static_bytes(@, bytes)]
    ELSE LET f == RopeBuilder_finish(b)
         IN  [f EXCEPT !.length = @ + Len(bytes),
                       !.committed = Append(@, Local(Bytes_from_static(bytes)))]

\* push_static_bytes that treats a string at or above the threshold like a
\* small one
RopeBuilder_push_static_bytes_all_pending(b, bytes) ==
    IF bytes = <<>> THEN b
    ELSE [b EXCEPT !.uncommited = Uncommitted_push_static_bytes(@, bytes)]

RopeBuilder_push_static_bytes(b, bytes) ==
    IF bytes = <<>> THEN b
    ELSE IF Len(bytes) < BytesSize
    THEN [b EXCEPT !.uncommited = Uncommitted_push_static_bytes(@, bytes)]
    ELSE LET f == RopeBuilder_finish(b)
         IN  [f EXCEPT !.length = @ + Len(bytes),
                       !.committed = Append(@, Local(Bytes_from_static(bytes)))]

\* concat that leaves the pending region uncommitted
RopeBuilder_concat_no_finish(b, other) ==
    IF other.length = 0 THEN b
    ELSE [b EXCEPT !.length = @ + other.length,
                   !.committed = Append(@, Shared(other.data))]

\* concat that copies the other rope's segments into the committed list
RopeBuilder_concat_flattening(b, other) ==
    IF other.length = 0 THEN b
    ELSE LET f == RopeBuilder_finish(b)
         IN  [f EXCEPT !.length = @ + other.length,
                       !.committed = @ \o stores[other.data]]

\* concat without the early return on an empty rope
RopeBuilder_concat_no_empty_check(b, other) ==
    LET f == RopeBuilder_finish(b)
    IN  [f EXCEPT !.length = @ + other.length,
                  !.committed = Append(@, Shared(other.data))]

\* other: a Rope value [length, data]
\* concat that refers to the store the builder itself is going to be sealed into
RopeBuilder_concat_own_store(b, other) ==
    IF other.length = 0 THEN b
    ELSE LET f == RopeBuilder_finish(b)
         IN  [f EXCEPT !.length = @ + other.length,
                       !.committed = Append(@, Shared(Len(stores) + 1))]

RopeBuilder_concat(b, other) ==
    IF other.length = 0 THEN b
    ELSE LET f == RopeBuilder_finish(b)
         IN  [f EXCEPT !.length = @ + other.length,
                       !.committed = Append(@, Shared(other.data))]

RopeBuilder_len(b) == b.length + Uncommitted_len(b.uncommited)

RopeBuilder_is_empty(b) == RopeBuilder_len(b) = 0

RopeBuilder_from_vec(bytes) ==
    [RopeBuilder_default EXCEPT !.uncommited = Uncommitted_from_vec(bytes)]

RopeBuilder_from_static(s) ==
    RopeBuilder_push_static_bytes(RopeBuilder_default, s)

\* InnerRope::from(Box<[RopeElem]>): the debug-build check of its elements
InnerRope_from_check(els, panic) ==
    LET badLocal == \E k \in 1..Len(els) : els[k].t = "Local" /\ els[k].b = <<>>
        badShared == \E k \in 1..Len(els) :
                        els[k].t = "Shared" /\ stores[els[k].r] = <<>>
    IN  DebugAssert(~badShared, "must not have empty InnerRope",
            DebugAssert(~badLocal, "must not have empty Bytes", panic))

----------------------------------------------------------------------------
(* Rope *)

\* Rope::default(): length 0 over a fresh, empty InnerRope
Rope_default_store == <<>>

\* Rope::from that wraps an empty buffer in a leaf of its own
Rope_from_no_empty_check(bytes) ==
    [length |-> Len(bytes.b), els |-> <<Local(bytes)>>, panic |-> ""]

\* Rope::from(bytes), bytes: Bytes = T::into(): [length, els, panic]
Rope_from(bytes) ==
    IF bytes.b = <<>>
    THEN [length |-> 0, els |-> Rope_default_store, panic |-> ""]
    ELSE [length |-> Len(bytes.b), els |-> <<Local(bytes)>>,
          panic |-> InnerRope_from_check(<<Local(bytes)>>, "")]

\* Deserialize: the Vec<u8> the deserializer yields goes through Rope::from
Rope_deserialize(vec) == Rope_from(Bytes_from_vec(vec))

Rope_len(rope) == rope.length

Rope_is_empty(rope) == rope.length = 0

\* build that seals the committed list without finishing the pending region
RopeBuilder_build_no_finish(b) ==
    [length |-> b.length, els |-> b.committed,
     panic |-> InnerRope_from_check(b.committed, b.panic)]

\* RopeBuilder::build: finish, then seal the committed list
RopeBuilder_build(b) ==
    LET f == RopeBuilder_finish(b)
    IN  [length |-> f.length, els |-> f.committed,
         panic |-> InnerRope_from_check(f.committed, f.panic)]

----------------------------------------------------------------------------
(* RopeReader *)

NoReader == [live |-> FALSE, rope |-> 0, stack |-> <<>>]

StackLocal(b, mem) == [t |-> "Local", b |-> b, mem |-> mem]
StackShared(id, index) == [t |-> "Shared", r |-> id, i |-> index]

\* From<RopeElem> for StackElem
StackElem_from(el) ==
    IF el.t = "Local" THEN StackLocal(el.b, el.mem) ELSE StackShared(el.r, 0)

\* RopeReader::new(&InnerRope)
RopeReader_new(id) ==
    IF stores[id] = <<>> THEN <<>> ELSE <<StackShared(id, 0)>>

Pop(stack) == SubSeq(stack, 1, Len(stack) - 1)
Top(stack) == stack[Len(stack)]

\* Iterator::next: [stack, some, b, mem, panic]
RECURSIVE RopeReader_next(_)
\* next that pushes the sibling frame above the element it just took
RopeReader_next_sibling_first(stack) ==
    IF stack = <<>>
    THEN [stack |-> stack, some |-> FALSE, b |-> <<>>, mem |-> "", panic |-> ""]
    ELSE LET top == Top(stack)
             rest == Pop(stack)
         IN  IF top.t = "Local"
             THEN [stack |-> rest, some |-> TRUE, b |-> top.b, mem |-> top.mem,
                   panic |-> ""]
             ELSE LET inner == stores[top.r]
                      el == inner[top.i + 1]
                      index == top.i + 1
                      s1 == Append(rest, StackElem_from(el))
                  IN  RopeReader_next(IF index < Len(inner)
                                      THEN Append(s1, StackShared(top.r, index))
                                      ELSE s1)

\* next that forgets the rest of a store when it descends into a branch
RopeReader_next_dropping_sibling(stack) ==
    IF stack = <<>>
    THEN [stack |-> stack, some |-> FALSE, b |-> <<>>, mem |-> "", panic |-> ""]
    ELSE LET top == Top(stack)
             rest == Pop(stack)
         IN  IF top.t = "Local"
             THEN [stack |-> rest, some |-> TRUE, b |-> top.b, mem |-> top.mem,
                   panic |-> ""]
             ELSE LET inner == stores[top.r]
                      el == inner[top.i + 1]
                      index == top.i + 1
                      s1 == IF index < Len(inner) /\ el.t = "Local"
                            THEN Append(rest, StackShared(top.r, index))
                            ELSE rest
                  IN  RopeReader_next(Append(s1, StackElem_from(el)))

\* next that pushes the branch frame back even when its store is exhausted
RopeReader_next_pushing_exhausted(stack) ==
    IF stack = <<>>
    THEN [stack |-> stack, some |-> FALSE, b |-> <<>>, mem |-> "", panic |-> ""]
    ELSE LET top == Top(stack)
             rest == Pop(stack)
         IN  IF top.t = "Local"
             THEN [stack |-> rest, some |-> TRUE, b |-> top.b, mem |-> top.mem,
                   panic |-> ""]
             ELSE LET inner == stores[top.r]
                  IN  IF top.i >= Len(inner)
                      THEN [stack |-> rest, some |-> FALSE, b |-> <<>>, mem |-> "",
                            panic |-> "index out of bounds"]
                      ELSE LET el == inner[top.i + 1]
                               index == top.i + 1
                               s1 == Append(rest, StackShared(top.r, index))
                           IN  RopeReader_next(Append(s1, StackElem_from(el)))

RopeReader_next(stack) ==
    IF stack = <<>>
    THEN [stack |-> stack, some |-> FALSE, b |-> <<>>, mem |-> "", panic |-> ""]
    ELSE LET top == Top(stack)
             rest == Pop(stack)
         IN  IF top.t = "Local"
             THEN [stack |-> rest, some |-> TRUE, b |-> top.b, mem |-> top.mem,
                   panic |-> DebugAssert(top.b # <<>>,
                                 "must not have empty Bytes section", "")]
             ELSE LET inner == stores[top.r]
                  IN  IF top.i >= Len(inner)
                      THEN [stack |-> rest, some |-> FALSE, b |-> <<>>, mem |-> "",
                            panic |-> "index out of bounds"]
                      ELSE LET el == inner[top.i + 1]
                               index == top.i + 1
                               s1 == IF index < Len(inner)
                                     THEN Append(rest, StackShared(top.r, index))
                                     ELSE rest
                           IN  RopeReader_next(Append(s1, StackElem_from(el)))

Min(a, b) == IF a < b THEN a ELSE b

\* Bytes::advance(cnt) on a slice
\* advance that drops one byte more than asked
Bytes_advance_one_more(b, cnt) == SubSeq(b, cnt + 2, Len(b))

Bytes_advance(b, cnt) == SubSeq(b, cnt + 1, Len(b))

\* read_internal's loop: [stack, out, remaining, panic]
RECURSIVE ReadLoop(_, _, _)
\* the loop without the push-back of a partly read slice
ReadLoop_no_push_back(stack, remaining, out) ==
    IF remaining > 0
    THEN LET nx == RopeReader_next(stack)
         IN  IF ~nx.some
             THEN [stack |-> nx.stack, out |-> out, remaining |-> remaining,
                   panic |-> nx.panic]
             ELSE LET amount == Min(Len(nx.b), remaining)
                  IN  ReadLoop(nx.stack, remaining - amount,
                               out \o SubSeq(nx.b, 1, amount))
    ELSE [stack |-> stack, out |-> out, remaining |-> remaining, panic |-> ""]

ReadLoop(stack, remaining, out) ==
    IF remaining > 0
    THEN LET nx == RopeReader_next(stack)
         IN  IF nx.panic # ""
             THEN [stack |-> nx.stack, out |-> out, remaining |-> remaining,
                   panic |-> nx.panic]
             ELSE IF ~nx.some
             THEN [stack |-> nx.stack, out |-> out, remaining |-> remaining,
                   panic |-> ""]
             ELSE LET amount == Min(Len(nx.b), remaining)
                      put == out \o SubSeq(nx.b, 1, amount)
                      s1 == IF amount < Len(nx.b)
                            THEN Append(nx.stack,
                                     StackLocal(Bytes_advance(nx.b, amount), nx.mem))
                            ELSE nx.stack
                  IN  ReadLoop(s1, remaining - amount, put)
    ELSE [stack |-> stack, out |-> out, remaining |-> remaining, panic |-> ""]

\* read_internal that returns after the first slice it copies from
RopeReader_read_internal_one_slice(stack, want) ==
    LET nx == RopeReader_next(stack)
        amount == Min(Len(nx.b), want)
    IN  IF want = 0 \/ ~nx.some
        THEN [stack |-> IF want = 0 THEN stack ELSE nx.stack, out |-> <<>>,
              n |-> 0, panic |-> ""]
        ELSE [stack |-> IF amount < Len(nx.b)
                        THEN Append(nx.stack,
                                 StackLocal(Bytes_advance(nx.b, amount), nx.mem))
                        ELSE nx.stack,
              out |-> SubSeq(nx.b, 1, amount), n |-> amount, panic |-> ""]

\* read_internal(want, buf): [stack, out, n, panic], n = want - remaining
RopeReader_read_internal(stack, want) ==
    LET r == ReadLoop(stack, want, <<>>)
    IN  [stack |-> r.stack, out |-> r.out, n |-> want - r.remaining,
         panic |-> r.panic]

\* Read::read(buf) with buf.len() = want: Ok(n) and the bytes written
RopeReader_read(stack, want) ==
    LET r == RopeReader_read_internal(stack, want)
    IN  [stack |-> r.stack, out |-> r.out, n |-> r.n, panic |-> r.panic]

\* AsyncRead::poll_read with buf.remaining() = want: Poll::Ready(Ok(()))
RopeReader_poll_read(stack, want) ==
    LET r == RopeReader_read_internal(stack, want)
    IN  [stack |-> r.stack, out |-> r.out, n |-> Len(r.out), ready |-> TRUE,
         panic |-> r.panic]

\* fill_buf that hands out the slice without keeping it on the stack
RopeReader_fill_buf_taking(stack) ==
    LET nx == RopeReader_next(stack)
    IN  [stack |-> nx.stack, buf |-> nx.b, panic |-> nx.panic]

\* BufRead::fill_buf: [stack, buf, panic]
RopeReader_fill_buf(stack) ==
    LET nx == RopeReader_next(stack)
    IN  IF ~nx.some
        THEN [stack |-> nx.stack, buf |-> <<>>, panic |-> nx.panic]
        ELSE [stack |-> Append(nx.stack, StackLocal(nx.b, nx.mem)),
              buf |-> nx.b, panic |-> nx.panic]

\* consume that advances the slice even when it is used up
RopeReader_consume_no_pop(stack, amt) ==
    IF stack # <<>> /\ Top(stack).t = "Local" /\ amt <= Len(Top(stack).b)
    THEN [stack |-> [stack EXCEPT ![Len(stack)].b = Bytes_advance(@, amt)],
          panic |-> ""]
    ELSE [stack |-> stack, panic |-> ""]

\* BufRead::consume(amt): [stack, panic]
RopeReader_consume(stack, amt) ==
    IF stack # <<>> /\ Top(stack).t = "Local"
    THEN IF amt = Len(Top(stack).b)
         THEN [stack |-> Pop(stack), panic |-> ""]
         ELSE IF amt > Len(Top(stack).b)
         THEN [stack |-> stack, panic |-> "cannot advance past remaining"]
         ELSE [stack |-> [stack EXCEPT ![Len(stack)].b = Bytes_advance(@, amt)],
               panic |-> ""]
    ELSE [stack |-> stack, panic |-> ""]

\* Stream::poll_next: Poll::Ready(self.next().map(Ok))
RopeReader_poll_next(stack) == RopeReader_next(stack)

\* The bytes a reader has not handed out yet, read off its frames top first
FrameBytes(fr) ==
    IF fr.t = "Local" THEN fr.b
    ELSE FlatElems(SubSeq(stores[fr.r], fr.i + 1, Len(stores[fr.r])))

RECURSIVE Remaining(_)
Remaining(stack) ==
    IF stack = <<>> THEN <<>>
    ELSE FrameBytes(Top(stack)) \o Remaining(Pop(stack))

----------------------------------------------------------------------------
(* Equality and hashing *)

\* the loop of PartialEq for InnerRope, on the two readers' stacks
RECURSIVE EqLoop(_, _)
\* the loop that stops with "equal" as soon as either side runs out
EqLoop_prefix(left, right) ==
    LET fa == RopeReader_fill_buf(left)
        fb == RopeReader_fill_buf(right)
        a == fa.buf
        b == fb.buf
        len == Min(Len(a), Len(b))
    IN  IF len = 0 THEN TRUE
        ELSE IF SubSeq(a, 1, len) # SubSeq(b, 1, len) THEN FALSE
        ELSE EqLoop(RopeReader_consume(fa.stack, len).stack,
                    RopeReader_consume(fb.stack, len).stack)

EqLoop(left, right) ==
    LET fa == RopeReader_fill_buf(left)
        fb == RopeReader_fill_buf(right)
        a == fa.buf
        b == fb.buf
        len == Min(Len(a), Len(b))
    IN  IF len = 0 THEN Len(a) = Len(b)
        ELSE IF SubSeq(a, 1, len) # SubSeq(b, 1, len) THEN FALSE
        ELSE EqLoop(RopeReader_consume(fa.stack, len).stack,
                    RopeReader_consume(fb.stack, len).stack)

InnerRope_eq(x, y) == EqLoop(RopeReader_new(x), RopeReader_new(y))

\* The hasher is the sequence of calls made on it
WriteUsize(n) == [op |-> "write_usize", v |-> n, bytes |-> <<>>]
WriteBytes(b) == [op |-> "write_bytes", v |-> 0, bytes |-> b]

\* DeterministicHash for InnerRope and RopeElem
RECURSIVE HashElems(_, _)
HashElems(els, state) ==
    IF els = <<>> THEN state
    ELSE LET el == Head(els)
             s1 == IF el.t = "Local" THEN Append(state, WriteBytes(el.b))
                   ELSE HashElems(stores[el.r], state)
         IN  HashElems(Tail(els), s1)

InnerRope_deterministic_hash(id, state) == HashElems(stores[id], state)

\* a hash that also mixes in the number of segments of the root store
Rope_deterministic_hash_store_len(rope, state) ==
    InnerRope_deterministic_hash(rope.data,
        Append(Append(state, WriteUsize(Rope_len(rope))),
               WriteUsize(Len(stores[rope.data]))))

\* DeterministicHash for Rope
Rope_deterministic_hash(rope, state) ==
    InnerRope_deterministic_hash(rope.data, Append(state, WriteUsize(Rope_len(rope))))

----------------------------------------------------------------------------
(* Draining a reader to the end, one consumption mode at a time *)

RECURSIVE DrainNext(_)
DrainNext(stack) ==
    LET nx == RopeReader_next(stack)
    IN  IF nx.some THEN nx.b \o DrainNext(nx.stack) ELSE <<>>

RECURSIVE DrainPollNext(_)
DrainPollNext(stack) ==
    LET nx == RopeReader_poll_next(stack)
    IN  IF nx.some THEN nx.b \o DrainPollNext(nx.stack) ELSE <<>>

\* read(buf) until it returns Ok(0)
RECURSIVE DrainRead(_, _)
DrainRead(stack, want) ==
    LET r == RopeReader_read(stack, want)
    IN  IF r.n = 0 THEN <<>> ELSE r.out \o DrainRead(r.stack, want)

\* poll_read(buf) until it leaves the buffer as it found it
RECURSIVE DrainPollRead(_, _)
DrainPollRead(stack, want) ==
    LET r == RopeReader_poll_read(stack, want)
    IN  IF r.n = 0 THEN <<>> ELSE r.out \o DrainPollRead(r.stack, want)

\* the slices next() returns until None, boundaries kept
RECURSIVE SlicesNext(_)
SlicesNext(stack) ==
    LET nx == RopeReader_next(stack)
    IN  IF nx.some THEN <<nx.b>> \o SlicesNext(nx.stack) ELSE <<>>

----------------------------------------------------------------------------
(* The bytes of a sequence of slices, put end to end *)

RECURSIVE Concatenated(_)
Concatenated(slices) ==
    IF slices = <<>> THEN <<>> ELSE Head(slices) \o Concatenated(Tail(slices))

----------------------------------------------------------------------------
(* String conversion and serialization *)

\* a UTF-8 continuation byte
Utf8Cont(b) == b >= 128 /\ b <= 191

\* std::str::from_utf8(bytes).is_ok(): the bytes are well-formed UTF-8
RECURSIVE Utf8Valid(_)
Utf8Valid(s) ==
    IF s = <<>> THEN TRUE
    ELSE LET b0 == s[1]
             n == Len(s)
         IN  IF b0 < 128 THEN Utf8Valid(Tail(s))
             ELSE IF b0 >= 194 /\ b0 <= 223
             THEN /\ n >= 2 /\ Utf8Cont(s[2])
                  /\ Utf8Valid(SubSeq(s, 3, n))
             ELSE IF b0 >= 224 /\ b0 <= 239
             THEN /\ n >= 3
                  /\ s[2] >= (IF b0 = 224 THEN 160 ELSE 128)
                  /\ s[2] <= (IF b0 = 237 THEN 159 ELSE 191)
                  /\ Utf8Cont(s[3])
                  /\ Utf8Valid(SubSeq(s, 4, n))
             ELSE IF b0 >= 240 /\ b0 <= 244
             THEN /\ n >= 4
                  /\ s[2] >= (IF b0 = 240 THEN 144 ELSE 128)
                  /\ s[2] <= (IF b0 = 244 THEN 143 ELSE 191)
                  /\ Utf8Cont(s[3]) /\ Utf8Cont(s[4])
                  /\ Utf8Valid(SubSeq(s, 5, n))
             ELSE FALSE

\* what to_str returns: Ok(s), s given by its bytes, or Err(context(msg))
StrOk(s) == [ok |-> TRUE, s |-> s, err |-> ""]
StrErr == [ok |-> FALSE, s |-> <<>>, err |-> "failed to convert rope into string"]

\* std::str::from_utf8 on one leaf
str_from_utf8(bytes) == IF Utf8Valid(bytes) THEN StrOk(bytes) ELSE StrErr

\* read_to_string that checks each slice it receives on its own
Read_read_to_string_per_slice(stack, cap) ==
    LET slices == SlicesNext(stack)
    IN  IF \A k \in 1..Len(slices) : Utf8Valid(slices[k])
        THEN StrOk(Concatenated(slices)) ELSE StrErr

\* Read::read_to_string into a String of capacity cap: read() into the spare
\* room until it returns 0, then validate everything that was read at once
Read_read_to_string(stack, cap) == str_from_utf8(DrainRead(stack, cap))

\* self.len() on an InnerRope: the length of the boxed slice of segments it
\* derefs to
InnerRope_len(id) == Len(stores[id])

\* InnerRope::to_str
RECURSIVE InnerRope_to_str(_)
InnerRope_to_str(id) ==
    LET els == stores[id]
    IN  IF els = <<>> THEN StrOk(<<>>)
        ELSE IF Len(els) = 1 /\ els[1].t = "Shared" THEN InnerRope_to_str(els[1].r)
        ELSE IF Len(els) = 1 THEN str_from_utf8(els[1].b)
        ELSE Read_read_to_string(RopeReader_new(id), InnerRope_len(id))

\* Rope::to_str
Rope_to_str(rope) == InnerRope_to_str(rope.data)

\* serializer.serialize_str(&s) on what to_str returned, the error passed
\* on; the serialized form is the string's bytes
serialize_str(r) ==
    IF r.ok THEN [ok |-> TRUE, wire |-> r.s, err |-> ""]
    ELSE [ok |-> FALSE, wire |-> <<>>, err |-> r.err]

\* Serialize for Rope: to_str()?, then serializer.serialize_str(&s)
Rope_serialize(rope) == serialize_str(Rope_to_str(rope))

----------------------------------------------------------------------------
(* AstPath and the tree that is visited (path_visitor.rs) *)

\* AstParentKind: the field of a parent node a child hangs on. The derived
\* Ord of the enum is the order of the integers.
Kinds == {1, 2, 3}

\* the kinds whose field holds a node ApplyVisitors has a method for (Prop,
\* Expr, Pat, Stmt, ModuleDecl, ModuleItem, CallExpr, Lit, Str); the node
\* behind any other kind is visited by the default method of the trait
HookedKinds == {1, 3}

\* AstPath = Vec<AstParentKind>, never empty for a registered visitor
AstPaths == UNION {[1..n -> Kinds] : n \in 1..MaxDepth}

\* Ord of Vec: lexicographic, a proper prefix sorts first
RECURSIVE AstPath_lt(_, _)
AstPath_lt(p, q) ==
    IF q = <<>> THEN FALSE
    ELSE IF p = <<>> THEN TRUE
    ELSE IF Head(p) # Head(q) THEN Head(p) < Head(q)
    ELSE AstPath_lt(Tail(p), Tail(q))

\* the nodes of a module, each named by its path from the Module node <<>>
Prefixes(p) == {SubSeq(p, 1, n) : n \in 1..Len(p)}

Module(leaves) == UNION {Prefixes(p) : p \in leaves}

Modules == {Module({p, q}) : p, q \in AstPaths}

\* the kinds of the children of node n, in field order
RECURSIVE Ascending(_)
Ascending(ks) ==
    IF ks = {} THEN <<>>
    ELSE LET k == CHOOSE x \in ks : \A y \in ks : x <= y
         IN <<k>> \o Ascending(ks \ {k})

Children(tree, n) == Ascending({k \in Kinds : Append(n, k) \in tree})

\* the registered visitors: (&AstPath, &dyn VisitorFactory) pairs, the factory
\* named by its position in the registration
Registrations ==
    {<<p>> : p \in AstPaths} \cup {<<p, q>> : p, q \in AstPaths}

Registered(reg) == [i \in 1..Len(reg) |-> [path |-> reg[i], factory |-> i]]

----------------------------------------------------------------------------
(* ApplyVisitors *)

\* slice::partition_point on a partitioned slice, given the value of the
\* predicate on each element: the length of the prefix on which it holds
partition_point(pred) ==
    IF \A i \in 1..Len(pred) : pred[i] THEN Len(pred)
    ELSE (CHOOSE i \in 1..Len(pred) : ~pred[i] /\ \A j \in 1..(i - 1) : pred[j]) - 1

\* &s[from..to]
Slice(s, from, to) == SubSeq(s, from + 1, to)

FoundNone == [some |-> FALSE, visitors |-> <<>>, panic |-> ""]
FoundSome(vs) == [some |-> TRUE, visitors |-> vs, panic |-> ""]
FoundPanic(msg) == [some |-> FALSE, visitors |-> <<>>, panic |-> msg]

\* path[index] of a Vec, 0-based
At(path, index) == path[index + 1]

\* find_range(visitors, kind, index)
find_range(visitors, kind, index) ==
    IF visitors = <<>>
    THEN FoundPanic("called Option::unwrap() on a None value")
    ELSE IF \E i \in 1..Len(visitors) : Len(visitors[i].path) <= index
    THEN FoundPanic("index out of bounds")
    ELSE IF At(visitors[1].path, index) > kind THEN FoundNone
    ELSE LET start == partition_point([i \in 1..Len(visitors) |->
                                          At(visitors[i].path, index) < kind])
         IN IF start >= Len(visitors) THEN FoundNone
            ELSE IF At(visitors[start + 1].path, index) > kind THEN FoundNone
            ELSE LET end ==
                         IF At(visitors[Len(visitors)].path, index) = kind
                         THEN Len(visitors)
                         ELSE partition_point([i \in 1..(Len(visitors) - start) |->
                                                  At(visitors[start + i].path, index)
                                                      = kind])
                              + start
                 IN IF end = start THEN FoundNone
                    ELSE FoundSome(Slice(visitors, start, end))

\* Vec::sort_by_key(|(path, _)| *path): a stable sort by path
RECURSIVE sort_by_key(_)
sort_by_key(visitors) ==
    IF visitors = <<>> THEN <<>>
    ELSE LET v == visitors[Len(visitors)]
             rest == sort_by_key(SubSeq(visitors, 1, Len(visitors) - 1))
             keep == partition_point([i \in 1..Len(rest) |->
                                        ~AstPath_lt(v.path, rest[i].path)])
         IN Slice(rest, 0, keep) \o <<v>> \o Slice(rest, keep, Len(rest))

\* ApplyVisitors::new(visitors)
ApplyVisitors_new(visitors) ==
    IF visitors = <<>>
    THEN [visitors |-> <<>>, index |-> 0,
          panic |-> "assertion failed: !visitors.is_empty()"]
    ELSE [visitors |-> sort_by_key(visitors), index |-> 0, panic |-> ""]

\* what a traversal has done so far: the visitors created and run, each with
\* the node it was run on, and the panic that ended it
Ran(run, factory, n) ==
    [run EXCEPT !.applied = Append(@, [factory |-> factory, node |-> n])]

RECURSIVE RunAll(_, _, _)
RunAll(run, visitors, n) ==
    IF visitors = <<>> THEN run
    ELSE RunAll(Ran(run, Head(visitors).factory, n), Tail(visitors), n)

RECURSIVE visit_if_required(_, _, _, _, _, _)
RECURSIVE visit_mut_children_with_path(_, _, _, _, _)

\* ApplyVisitors::visit_if_required(n, ast_path), from the head of the while
\* loop with the locals index and current_visitors; self is (own, self_index)
visit_if_required(tree, n, own, self_index, loc, run) ==
    IF loc.index < Len(n)
    THEN LET current == loc.index = Len(n) - 1
             kind == At(n, loc.index)
             found == find_range(loc.current_visitors, kind, loc.index)
         IN IF found.panic # "" THEN [run EXCEPT !.panic = found.panic]
            ELSE IF ~found.some THEN run
            ELSE LET index == loc.index + 1
                     visitors == found.visitors
                     nested_visitors_start ==
                         partition_point([i \in 1..Len(visitors) |->
                                              Len(visitors[i].path) = index])
                     nested == Slice(visitors, nested_visitors_start, Len(visitors))
                 IN IF current
                    THEN LET below ==
                                 IF nested_visitors_start < Len(visitors)
                                 THEN visit_mut_children_with_path(
                                          tree, n, Children(tree, n),
                                          [visitors |-> nested, index |-> index], run)
                                 ELSE run
                         IN IF below.panic # "" THEN below
                            ELSE RunAll(below, Slice(visitors, 0, nested_visitors_start), n)
                    ELSE visit_if_required(tree, n, own, self_index,
                                           [index |-> index, current_visitors |-> nested],
                                           run)
    ELSE visit_mut_children_with_path(tree, n, Children(tree, n),
                                      [visitors |-> own, index |-> self_index], run)

\* n.visit_mut_children_with_path(v, ast_path) of the generated visitor: each
\* child in field order, with the kind of its field pushed on ast_path; a
\* hooked child goes to visit_if_required, any other to the default method,
\* which visits the children of the child
visit_mut_children_with_path(tree, n, kinds, v, run) ==
    IF kinds = <<>> \/ run.panic # "" THEN run
    ELSE LET child == Append(n, Head(kinds))
             after ==
                 IF Head(kinds) \in HookedKinds
                 THEN visit_if_required(tree, child, v.visitors, v.index,
                                        [index |-> v.index,
                                         current_visitors |-> v.visitors],
                                        run)
                 ELSE visit_mut_children_with_path(tree, child, Children(tree, child),
                                                   v, run)
         IN visit_mut_children_with_path(tree, n, Tail(kinds), v, after)

\* m.visit_mut_with_path(&mut v, &mut Default::default()) on a Module
visit_mut_with_path(tree, v) ==
    visit_mut_children_with_path(tree, <<>>, Children(tree, <<>>), v,
                                 [applied |-> <<>>, panic |-> ""])

NoVisit == [pc |-> "none"]

----------------------------------------------------------------------------
(* State *)

OpRec(op, b, n) == [op |-> op, b |-> b, n |-> n]

Init ==
    /\ stores = <<>>
    /\ ropes = <<>>
    /\ builder = NoBuilder
    /\ pushed = <<>>
    /\ fuel = [calls |-> MaxCalls, ropes |-> MaxRopes]
    /\ reader = NoReader
    /\ delivered = <<>>
    /\ made = <<>>
    /\ last = OpRec("init", <<>>, 0)
    /\ panicked = ""
    /\ visit = NoVisit

Running == panicked = ""

\* a byte-accepting call is within the budget; a call that accepts nothing is free
Budget(bytes) == bytes = <<>> \/ fuel.calls > 0

Spend(bytes) == IF bytes = <<>> THEN fuel ELSE [fuel EXCEPT !.calls = @ - 1]

\* room for one more rope
Room == fuel.ropes > 0

----------------------------------------------------------------------------
(* Builder operations *)

\* RopeBuilder::default()
NewBuilder ==
    /\ Running /\ ~builder.live /\ ~reader.live /\ Room
    /\ builder' = RopeBuilder_default
    /\ pushed' = <<>>
    /\ last' = OpRec("default", <<>>, 0)
    /\ UNCHANGED <<visit, stores, ropes, fuel, reader, delivered, made, panicked>>

\* RopeBuilder::from(Vec<u8>)
BuilderFromVec(bytes) ==
    /\ Running /\ ~builder.live /\ ~reader.live /\ Room
    /\ Budget(bytes)
    /\ builder' = RopeBuilder_from_vec(bytes)
    /\ pushed' = bytes
    /\ fuel' = Spend(bytes)
    /\ last' = OpRec("from_vec", bytes, 0)
    /\ UNCHANGED <<visit, stores, ropes, reader, delivered, made, panicked>>

\* RopeBuilder::from(&'static str)
BuilderFromStatic(s) ==
    /\ Running /\ ~builder.live /\ ~reader.live /\ Room
    /\ Budget(s)
    /\ builder' = RopeBuilder_from_static(s)
    /\ pushed' = s
    /\ fuel' = Spend(s)
    /\ last' = OpRec("from_static", s, 0)
    /\ panicked' = builder'.panic
    /\ UNCHANGED <<visit, stores, ropes, reader, delivered, made>>

PushBytes(bytes) ==
    /\ Running /\ builder.live /\ Budget(bytes)
    /\ builder' = RopeBuilder_push_bytes(builder, bytes)
    /\ pushed' = pushed \o bytes
    /\ fuel' = Spend(bytes)
    /\ last' = OpRec("push_bytes", bytes, 0)
    /\ UNCHANGED <<visit, stores, ropes, reader, delivered, made, panicked>>

\* Write::write: push_bytes, then Ok(bytes.len())
Write(bytes) ==
    /\ Running /\ builder.live /\ Budget(bytes)
    /\ builder' = RopeBuilder_push_bytes(builder, bytes)
    /\ pushed' = pushed \o bytes
    /\ fuel' = Spend(bytes)
    /\ last' = OpRec("write", bytes, Len(bytes))
    /\ UNCHANGED <<visit, stores, ropes, reader, delivered, made, panicked>>

\* push_static_bytes, and `+= &'static str`
PushStaticBytes(s) ==
    /\ Running /\ builder.live /\ Budget(s)
    /\ builder' = RopeBuilder_push_static_bytes(builder, s)
    /\ pushed' = pushed \o s
    /\ fuel' = Spend(s)
    /\ last' = OpRec("push_static_bytes", s, 0)
    /\ panicked' = builder'.panic
    /\ UNCHANGED <<visit, stores, ropes, reader, delivered, made>>

\* concat, and `+= &Rope`
Concat(i) ==
    /\ Running /\ builder.live /\ Budget(Flat(ropes[i].data))
    /\ builder' = RopeBuilder_concat(builder, ropes[i])
    /\ pushed' = pushed \o Flat(ropes[i].data)
    /\ fuel' = Spend(Flat(ropes[i].data))
    /\ last' = OpRec("concat", <<>>, i)
    /\ panicked' = builder'.panic
    /\ UNCHANGED <<visit, stores, ropes, reader, delivered, made>>

Finish ==
    /\ Running /\ builder.live
    /\ builder' = RopeBuilder_finish(builder)
    /\ last' = OpRec("finish", <<>>, 0)
    /\ panicked' = builder'.panic
    /\ UNCHANGED <<visit, stores, ropes, pushed, fuel, reader, delivered, made>>

\* Write::flush: finish, then Ok(())
Flush ==
    /\ Running /\ builder.live
    /\ builder' = RopeBuilder_finish(builder)
    /\ last' = OpRec("flush", <<>>, 0)
    /\ panicked' = builder'.panic
    /\ UNCHANGED <<visit, stores, ropes, pushed, fuel, reader, delivered, made>>

\* a new Rope value that writes through the allocation of the newest store
\* when the new elements do not refer to it
NewRope_reusing_store(r, how, input, left) ==
    LET k == Len(stores)
        reuse == /\ k > 0
                 /\ \A e \in 1..Len(r.els) :
                       r.els[e].t = "Shared" => r.els[e].r # k
    IN  /\ stores' = IF reuse THEN [stores EXCEPT ![k] = r.els]
                      ELSE Append(stores, r.els)
        /\ ropes' = Append(ropes, [length |-> r.length,
                                   data |-> IF reuse THEN k ELSE k + 1])
        /\ made' = Append(made, [how |-> how, input |-> input])
        /\ panicked' = r.panic
        /\ fuel' = [left EXCEPT !.ropes = @ - 1]

\* a new Rope value over a new store
NewRope(r, how, input, left) ==
    /\ stores' = Append(stores, r.els)
    /\ ropes' = Append(ropes, [length |-> r.length, data |-> Len(stores) + 1])
    /\ made' = Append(made, [how |-> how, input |-> input])
    /\ panicked' = r.panic
    /\ fuel' = [left EXCEPT !.ropes = @ - 1]

\* build consumes the builder
Build ==
    /\ Running /\ builder.live
    /\ NewRope(RopeBuilder_build(builder), "build", pushed, fuel)
    /\ builder' = NoBuilder
    /\ pushed' = <<>>
    /\ last' = OpRec("build", <<>>, Len(ropes) + 1)
    /\ UNCHANGED <<visit, reader, delivered>>

\* Rope::from(Vec<u8> / String)
RopeFromVec(bytes) ==
    /\ Running /\ ~builder.live /\ ~reader.live /\ Room
    /\ Budget(bytes)
    /\ NewRope(Rope_from(Bytes_from_vec(bytes)), "from", bytes, Spend(bytes))
    /\ last' = OpRec("rope_from_vec", bytes, Len(ropes) + 1)
    /\ UNCHANGED <<visit, builder, pushed, reader, delivered>>

\* Rope::from(&'static str / &'static [u8])
RopeFromStatic(s) ==
    /\ Running /\ ~builder.live /\ ~reader.live /\ Room
    /\ Budget(s)
    /\ NewRope(Rope_from(Bytes_from_static(s)), "from", s, Spend(s))
    /\ last' = OpRec("rope_from_static", s, Len(ropes) + 1)
    /\ UNCHANGED <<visit, builder, pushed, reader, delivered>>

\* Rope::deserialize, given the byte sequence the deserializer yields
Deserialize(vec) ==
    /\ Running /\ ~builder.live /\ ~reader.live /\ Room
    /\ Budget(vec)
    /\ NewRope(Rope_deserialize(vec), "deserialize", vec, Spend(vec))
    /\ last' = OpRec("deserialize", vec, Len(ropes) + 1)
    /\ UNCHANGED <<visit, builder, pushed, reader, delivered>>

----------------------------------------------------------------------------
(* Operations on built ropes *)

\* a == b on two ropes
Eq(i, j) ==
    /\ Running /\ ~builder.live /\ ~reader.live
    /\ last' = [op |-> "eq", i |-> i, j |-> j,
                ret |-> InnerRope_eq(ropes[i].data, ropes[j].data)]
    /\ UNCHANGED <<visit, stores, ropes, builder, pushed, fuel, reader, delivered, made,
                   panicked>>

\* rope.deterministic_hash(&mut hasher) on a fresh hasher
Hash(i) ==
    /\ Running /\ ~builder.live /\ ~reader.live
    /\ last' = [op |-> "hash", i |-> i,
                ret |-> Rope_deterministic_hash(ropes[i], <<>>)]
    /\ UNCHANGED <<visit, stores, ropes, builder, pushed, fuel, reader, delivered, made,
                   panicked>>

----------------------------------------------------------------------------
(* Reader operations *)

RdRec(op, n, some, out, k) == [op |-> op, n |-> n, some |-> some, out |-> out, k |-> k]

\* rope.read()
StartRead(i) ==
    /\ Running /\ ~builder.live /\ ~reader.live
    /\ reader' = [live |-> TRUE, rope |-> i, stack |-> RopeReader_new(ropes[i].data)]
    /\ delivered' = <<>>
    /\ last' = RdRec("read_new", i, FALSE, <<>>, 0)
    /\ UNCHANGED <<visit, stores, ropes, builder, pushed, fuel, made, panicked>>

\* Iterator::next
ReadNext ==
    /\ Running /\ reader.live
    /\ LET nx == RopeReader_next(reader.stack)
       IN  /\ reader' = [reader EXCEPT !.stack = nx.stack]
           /\ delivered' = delivered \o nx.b
           /\ last' = RdRec("next", 0, nx.some, nx.b, Len(nx.b))
           /\ panicked' = nx.panic
    /\ UNCHANGED <<visit, stores, ropes, builder, pushed, fuel, made>>

\* Stream::poll_next: Poll::Ready(Some(Ok(bytes))) or Poll::Ready(None)
PollNext ==
    /\ Running /\ reader.live
    /\ LET nx == RopeReader_poll_next(reader.stack)
       IN  /\ reader' = [reader EXCEPT !.stack = nx.stack]
           /\ delivered' = delivered \o nx.b
           /\ last' = RdRec("poll_next", 0, nx.some, nx.b, Len(nx.b))
           /\ panicked' = nx.panic
    /\ UNCHANGED <<visit, stores, ropes, builder, pushed, fuel, made>>

\* Read::read on a buffer of `want` bytes
Read(want) ==
    /\ Running /\ reader.live
    /\ LET r == RopeReader_read(reader.stack, want)
       IN  /\ reader' = [reader EXCEPT !.stack = r.stack]
           /\ delivered' = delivered \o r.out
           /\ last' = RdRec("read", want, TRUE, r.out, r.n)
           /\ panicked' = r.panic
    /\ UNCHANGED <<visit, stores, ropes, builder, pushed, fuel, made>>

\* AsyncRead::poll_read on a ReadBuf with `want` bytes remaining
PollRead(want) ==
    /\ Running /\ reader.live
    /\ LET r == RopeReader_poll_read(reader.stack, want)
       IN  /\ reader' = [reader EXCEPT !.stack = r.stack]
           /\ delivered' = delivered \o r.out
           /\ last' = RdRec("poll_read", want, r.ready, r.out, r.n)
           /\ panicked' = r.panic
    /\ UNCHANGED <<visit, stores, ropes, builder, pushed, fuel, made>>

\* BufRead::fill_buf
FillBuf ==
    /\ Running /\ reader.live
    /\ LET r == RopeReader_fill_buf(reader.stack)
       IN  /\ reader' = [reader EXCEPT !.stack = r.stack]
           /\ last' = RdRec("fill_buf", 0, TRUE, r.buf, Len(r.buf))
           /\ panicked' = r.panic
    /\ UNCHANGED <<visit, stores, ropes, builder, pushed, fuel, delivered, made>>

\* BufRead::consume(amt)
Consume(amt) ==
    /\ Running /\ reader.live
    /\ LET r == RopeReader_consume(reader.stack, amt)
           gone == Len(Remaining(reader.stack)) - Len(Remaining(r.stack))
       IN  /\ reader' = [reader EXCEPT !.stack = r.stack]
           /\ delivered' = delivered \o SubSeq(Remaining(reader.stack), 1, gone)
           /\ last' = RdRec("consume", amt, TRUE, <<>>, gone)
           /\ panicked' = r.panic
    /\ UNCHANGED <<visit, stores, ropes, builder, pushed, fuel, made>>

Next ==
    \/ NewBuilder
    \/ \E bytes \in OwnedInputs : BuilderFromVec(bytes)
    \/ \E s \in StaticInputs : BuilderFromStatic(s)
    \/ \E bytes \in OwnedInputs : PushBytes(bytes)
    \/ \E bytes \in OwnedInputs : Write(bytes)
    \/ \E s \in StaticInputs : PushStaticBytes(s)
    \/ \E i \in 1..Len(ropes) : Concat(i)
    \/ Finish
    \/ Flush
    \/ Build
    \/ \E bytes \in OwnedInputs : RopeFromVec(bytes)
    \/ \E s \in StaticInputs : RopeFromStatic(s)
    \/ \E bytes \in OwnedInputs : Deserialize(bytes)

Spec == Init /\ [][Next]_vars

----------------------------------------------------------------------------
(* Reading: ropes made from a few pushes and concats, then one reader *)

ReadInputs == {<<97>>, <<98, 97>>}
ObsInputs == {<<97>>, <<98>>}
ObsVecInputs == {<<97, 98>>}

InitRead ==
    /\ stores = <<>>
    /\ ropes = <<>>
    /\ builder = NoBuilder
    /\ pushed = <<>>
    /\ fuel = [calls |-> MaxCallsRead, ropes |-> MaxRopesRead]
    /\ reader = NoReader
    /\ delivered = <<>>
    /\ made = <<>>
    /\ last = OpRec("init", <<>>, 0)
    /\ panicked = ""
    /\ visit = NoVisit

NextRead ==
    \/ NewBuilder
    \/ \E bytes \in ReadInputs : PushBytes(bytes)
    \/ \E i \in 1..Len(ropes) : Concat(i)
    \/ Finish
    \/ Build
    \/ \E i \in 1..Len(ropes) : StartRead(i)
    \/ ReadNext
    \/ PollNext
    \/ \E want \in 0..MaxWant : Read(want)
    \/ \E want \in 0..MaxWant : PollRead(want)
    \/ FillBuf
    \/ \E amt \in 0..MaxWant : Consume(amt)

SpecRead == InitRead /\ [][NextRead]_vars

----------------------------------------------------------------------------
(* Observing: ropes made from a few pushes and concats, compared and hashed *)

InitObs ==
    /\ stores = <<>>
    /\ ropes = <<>>
    /\ builder = NoBuilder
    /\ pushed = <<>>
    /\ fuel = [calls |-> MaxCallsObs, ropes |-> MaxRopesObs]
    /\ reader = NoReader
    /\ delivered = <<>>
    /\ made = <<>>
    /\ last = OpRec("init", <<>>, 0)
    /\ panicked = ""
    /\ visit = NoVisit

NextObs ==
    \/ NewBuilder
    \/ \E bytes \in ObsInputs : PushBytes(bytes)
    \/ \E i \in 1..Len(ropes) : Concat(i)
    \/ Build
    \/ \E bytes \in ObsVecInputs : RopeFromVec(bytes)
    \/ \E i, j \in 1..Len(ropes) : Eq(i, j)
    \/ \E i \in 1..Len(ropes) : Hash(i)
    \/ \E i \in 1..Len(ropes) : StartRead(i)

SpecObs == InitObs /\ [][NextObs]_vars

----------------------------------------------------------------------------
(* Strings: ropes whose bytes may or may not be UTF-8, converted and serialized *)

\* an ASCII byte, and the two bytes of U+00E9 one at a time
StrInputs == {<<97>>, <<195>>, <<169>>}
\* U+20AC whole, and a buffer that is not UTF-8
StrVecInputs == {<<226, 130, 172>>, <<255>>}

InitStr ==
    /\ stores = <<>>
    /\ ropes = <<>>
    /\ builder = NoBuilder
    /\ pushed = <<>>
    /\ fuel = [calls |-> MaxCallsStr, ropes |-> MaxRopesStr]
    /\ reader = NoReader
    /\ delivered = <<>>
    /\ made = <<>>
    /\ last = OpRec("init", <<>>, 0)
    /\ panicked = ""
    /\ visit = NoVisit

\* rope.to_str()
ToStr(i) ==
    /\ Running /\ ~builder.live /\ ~reader.live
    /\ last' = [op |-> "to_str", i |-> i, ret |-> Rope_to_str(ropes[i])]
    /\ UNCHANGED <<visit, stores, ropes, builder, pushed, fuel, reader, delivered, made,
                   panicked>>

\* rope.serialize(serializer)
Serialize(i) ==
    /\ Running /\ ~builder.live /\ ~reader.live
    /\ last' = [op |-> "serialize", i |-> i, ret |-> Rope_serialize(ropes[i])]
    /\ UNCHANGED <<visit, stores, ropes, builder, pushed, fuel, reader, delivered, made,
                   panicked>>

\* Rope::deserialize on the form the last serialize emitted
DeserializeSerialized ==
    /\ Running /\ ~builder.live /\ ~reader.live /\ Room
    /\ last.op = "serialize" /\ last.ret.ok
    /\ NewRope(Rope_deserialize(last.ret.wire), "deserialize", last.ret.wire, fuel)
    /\ last' = [op |-> "round_trip", i |-> last.i, n |-> Len(ropes) + 1]
    /\ UNCHANGED <<visit, builder, pushed, reader, delivered>>

NextStr ==
    \/ NewBuilder
    \/ \E bytes \in StrInputs : PushBytes(bytes)
    \/ \E i \in 1..Len(ropes) : Concat(i)
    \/ Build
    \/ \E bytes \in StrVecInputs : RopeFromVec(bytes)
    \/ \E i \in 1..Len(ropes) : ToStr(i)
    \/ \E i \in 1..Len(ropes) : Serialize(i)
    \/ DeserializeSerialized

SpecStr == InitStr /\ [][NextStr]_vars

----------------------------------------------------------------------------
(* Regrouping: three byte strings a, b, c built into ropes under each grouping *)

AssocInputs == {<<>>, <<97>>, <<98>>, Lit(BytesSize)}
\* the pushes of a run are all push_bytes or all push_static_bytes
AssocPushes == {"push", "push_static"}

PlanPush(how, bytes) == [op |-> how, b |-> bytes, i |-> 0]
PlanConcat(i) == [op |-> "concat", b |-> <<>>, i |-> i]

\* the builders run one after the other; builder k makes rope k
\*   1: push a, push b        2: push b, push c      3: push a, push b, push c
\*   4: concat rope 1, push c                        5: push a, concat rope 2
Regroupings(how, a, b, c) ==
    << <<PlanPush(how, a), PlanPush(how, b)>>,
       <<PlanPush(how, b), PlanPush(how, c)>>,
       <<PlanPush(how, a), PlanPush(how, b), PlanPush(how, c)>>,
       <<PlanConcat(1), PlanPush(how, c)>>,
       <<PlanPush(how, a), PlanConcat(2)>> >>

InitAssoc ==
    /\ stores = <<>>
    /\ ropes = <<>>
    /\ builder = NoBuilder
    /\ pushed = <<>>
    /\ \E how \in AssocPushes : \E a, b, c \in AssocInputs :
          fuel = [calls |-> 0, ropes |-> Len(Regroupings(how, a, b, c)),
                  plan |-> Regroupings(how, a, b, c), abc |-> <<a, b, c>>,
                  pc |-> 0]
    /\ reader = NoReader
    /\ delivered = <<>>
    /\ made = <<>>
    /\ last = OpRec("init", <<>>, 0)
    /\ panicked = ""
    /\ visit = NoVisit

\* the call the running builder makes next
PlanOp ==
    LET ops == fuel.plan[Len(ropes) + 1]
    IN  IF fuel.pc < Len(ops) THEN ops[fuel.pc + 1]
        ELSE [op |-> "build", b |-> <<>>, i |-> 0]

\* RopeBuilder::default() for the next rope of the plan
DoNewBuilder ==
    /\ Running /\ ~builder.live /\ ~reader.live /\ Room
    /\ builder' = RopeBuilder_default
    /\ pushed' = <<>>
    /\ fuel' = [fuel EXCEPT !.pc = 0]
    /\ last' = OpRec("default", <<>>, 0)
    /\ UNCHANGED <<visit, stores, ropes, reader, delivered, made, panicked>>

\* push_bytes with the bytes the plan names
DoPushBytes ==
    /\ Running /\ builder.live /\ PlanOp.op = "push"
    /\ builder' = RopeBuilder_push_bytes(builder, PlanOp.b)
    /\ pushed' = pushed \o PlanOp.b
    /\ fuel' = [fuel EXCEPT !.pc = @ + 1]
    /\ last' = OpRec("push_bytes", PlanOp.b, 0)
    /\ UNCHANGED <<visit, stores, ropes, reader, delivered, made, panicked>>

\* push_static_bytes with the bytes the plan names
DoPushStaticBytes ==
    /\ Running /\ builder.live /\ PlanOp.op = "push_static"
    /\ builder' = RopeBuilder_push_static_bytes(builder, PlanOp.b)
    /\ pushed' = pushed \o PlanOp.b
    /\ fuel' = [fuel EXCEPT !.pc = @ + 1]
    /\ last' = OpRec("push_static_bytes", PlanOp.b, 0)
    /\ panicked' = builder'.panic
    /\ UNCHANGED <<visit, stores, ropes, reader, delivered, made>>

\* concat of the rope the plan names
DoConcat ==
    /\ Running /\ builder.live /\ PlanOp.op = "concat"
    /\ builder' = RopeBuilder_concat(builder, ropes[PlanOp.i])
    /\ pushed' = pushed \o Flat(ropes[PlanOp.i].data)
    /\ fuel' = [fuel EXCEPT !.pc = @ + 1]
    /\ last' = OpRec("concat", <<>>, PlanOp.i)
    /\ panicked' = builder'.panic
    /\ UNCHANGED <<visit, stores, ropes, reader, delivered, made>>

\* build once the plan of this builder is done
DoBuild ==
    /\ Running /\ builder.live /\ PlanOp.op = "build"
    /\ NewRope(RopeBuilder_build(builder), "build", pushed, [fuel EXCEPT !.pc = 0])
    /\ builder' = NoBuilder
    /\ pushed' = <<>>
    /\ last' = OpRec("build", <<>>, Len(ropes) + 1)
    /\ UNCHANGED <<visit, reader, delivered>>

NextAssoc ==
    \/ DoNewBuilder
    \/ DoPushBytes
    \/ DoPushStaticBytes
    \/ DoConcat
    \/ DoBuild
    \/ \E i, j \in 1..Len(ropes) : Eq(i, j)
    \/ \E i \in 1..Len(ropes) : Hash(i)

SpecAssoc == InitAssoc /\ [][NextAssoc]_vars

----------------------------------------------------------------------------
(* Sharing: one rope read by two readers while a builder that holds it goes on *)

ShareInputs == {<<98, 97>>}

\* the caller holds up to two readers: the one it is operating, and one set
\* aside, kept as [stack, delivered]
InitShare ==
    /\ stores = <<>>
    /\ ropes = <<>>
    /\ builder = NoBuilder
    /\ pushed = <<>>
    /\ fuel = [calls |-> MaxCallsShare, ropes |-> MaxRopesShare]
    /\ reader = [live |-> FALSE, rope |-> 0, stack |-> <<>>, parked |-> <<>>]
    /\ delivered = <<>>
    /\ made = <<>>
    /\ last = OpRec("init", <<>>, 0)
    /\ panicked = ""
    /\ visit = NoVisit

\* rope.read() on a rope that the running builder has concatenated: the
\* first reader, or a second one over the same rope
OpenReader(i) ==
    /\ Running
    /\ ~reader.live \/ (reader.parked = <<>> /\ reader.rope = i)
    /\ reader.live \/ (builder.live /\ \E k \in 1..Len(builder.committed) :
                                          builder.committed[k] = Shared(ropes[i].data))
    /\ reader' = [live |-> TRUE, rope |-> i,
                  stack |-> RopeReader_new(ropes[i].data),
                  parked |-> IF reader.live
                             THEN <<[stack |-> reader.stack,
                                     delivered |-> delivered]>>
                             ELSE <<>>]
    /\ delivered' = <<>>
    /\ last' = RdRec("read_new", i, FALSE, <<>>, 0)
    /\ UNCHANGED <<visit, stores, ropes, builder, pushed, fuel, made, panicked>>

\* the caller turns to its other reader
SwitchReader ==
    /\ Running /\ reader.live /\ reader.parked # <<>>
    /\ reader' = [reader EXCEPT !.stack = reader.parked[1].stack,
                                !.parked = <<[stack |-> reader.stack,
                                              delivered |-> delivered]>>]
    /\ delivered' = reader.parked[1].delivered
    /\ last' = RdRec("switch", 0, FALSE, <<>>, 0)
    /\ UNCHANGED <<visit, stores, ropes, builder, pushed, fuel, made, panicked>>

NextShare ==
    \/ NewBuilder
    \/ \E bytes \in ShareInputs : PushBytes(bytes)
    \/ \E i \in 1..Len(ropes) : Concat(i)
    \/ Finish
    \/ Build
    \/ \E i \in 1..Len(ropes) : OpenReader(i)
    \/ SwitchReader
    \/ ReadNext
    \/ \E want \in 1..MaxWantShare : Read(want)
    \/ FillBuf
    \/ \E amt \in 1..MaxWantShare : Consume(amt)

SpecShare == InitShare /\ [][NextShare]_vars

----------------------------------------------------------------------------
(* Visiting: a module and a registration, then ApplyVisitors run over it *)

NoApplyVisitors == [visitors |-> <<>>, index |-> 0, panic |-> ""]

InitVisit ==
    /\ stores = <<>>
    /\ ropes = <<>>
    /\ builder = NoBuilder
    /\ pushed = <<>>
    /\ fuel = [calls |-> 0, ropes |-> 0]
    /\ reader = NoReader
    /\ delivered = <<>>
    /\ made = <<>>
    /\ last = OpRec("init", <<>>, 0)
    /\ panicked = ""
    /\ \E tree \in Modules, reg \in Registrations \cup {<<>>} :
           visit = [pc |-> "registered", tree |-> tree, reg |-> Registered(reg),
                    v |-> NoApplyVisitors, applied |-> <<>>]

\* ApplyVisitors::new(visitors)
New ==
    /\ Running /\ visit.pc = "registered"
    /\ LET v == ApplyVisitors_new(visit.reg)
       IN /\ visit' = [visit EXCEPT !.pc = "new", !.v = v]
          /\ panicked' = v.panic
    /\ UNCHANGED <<stores, ropes, builder, pushed, fuel, reader, delivered, made,
                   last>>

\* m.visit_mut_with_path(&mut ApplyVisitors::new(..), &mut Default::default())
VisitMutWithPath ==
    /\ Running /\ visit.pc = "new"
    /\ LET run == visit_mut_with_path(visit.tree, visit.v)
       IN /\ visit' = [visit EXCEPT !.pc = "visited", !.applied = run.applied]
          /\ panicked' = run.panic
    /\ UNCHANGED <<stores, ropes, builder, pushed, fuel, reader, delivered, made,
                   last>>

NextVisit ==
    \/ New
    \/ VisitMutWithPath

SpecVisit == InitVisit /\ [][NextVisit]_vars

----------------------------------------------------------------------------
(* Vocabulary of the properties *)

RECURSIVE SumLen(_)
SumLen(slices) ==
    IF slices = <<>> THEN 0 ELSE Len(Head(slices)) + SumLen(Tail(slices))

HasShared(id) == \E k \in 1..Len(stores[id]) : stores[id][k].t = "Shared"

Drained(i) == DrainNext(RopeReader_new(ropes[i].data))

----------------------------------------------------------------------------
(* C1 *)

\* C1: a rope made by build drains, through a reader, to exactly the bytes of
\* every push and the flat bytes of every concatenated rope, in call order.
C1_BuildKeepsBytes ==
    \A i \in 1..Len(ropes) :
        made[i].how = "build" => Drained(i) = made[i].input

\* a built rope whose pending bytes were committed ahead of a branch
C1_Witness ==
    /\ last.op = "build"
    /\ LET els == stores[ropes[last.n].data]
       IN  /\ Len(els) >= 2
           /\ els[1].t = "Local"
           /\ els[2].t = "Shared"
           /\ Drained(last.n) = made[last.n].input
           /\ Flat(els[2].r) # els[1].b

----------------------------------------------------------------------------
(* C2 *)

\* C2: however a rope was made (build, Rope::from, deserialize), its recorded
\* length is the sum of the lengths of its leaves in in-order traversal, which
\* is the number of bytes a full drain of a reader yields.
C2_LengthIsByteCount ==
    \A i \in 1..Len(ropes) :
        /\ Rope_len(ropes[i]) = SumLen(Leaves(ropes[i].data))
        /\ Rope_len(ropes[i]) = Len(Drained(i))

\* a built rope of two segments, one a branch to a deserialized rope
C2_Witness ==
    \E i, j \in 1..Len(ropes) :
        /\ made[i].how = "build" /\ HasShared(ropes[i].data)
        /\ Len(stores[ropes[i].data]) >= 2
        /\ made[j].how = "deserialize" /\ Rope_len(ropes[j]) > 0

----------------------------------------------------------------------------
(* C3 *)

\* C3: content equality answers true exactly when the two ropes have the same
\* flat bytes, whatever the two tree shapes, a strict prefix included.
C3_EqIffSameBytes ==
    last.op = "eq" =>
        (last.ret <=> Flat(ropes[last.i].data) = Flat(ropes[last.j].data))

\* a single flat leaf found equal to a nested tree whose leaf boundaries fall
\* inside that leaf
C3_Witness ==
    /\ last.op = "eq" /\ last.ret
    /\ Len(stores[ropes[last.i].data]) = 1
    /\ ~HasShared(ropes[last.i].data)
    /\ HasShared(ropes[last.j].data)
    /\ Len(Leaves(ropes[last.j].data)) >= 2
    /\ Leaves(ropes[last.j].data) # Leaves(ropes[last.i].data)

----------------------------------------------------------------------------
(* C4 *)

HashBytes(ev) == Concatenated([k \in 1..Len(ev) |-> ev[k].bytes])

\* C4: hashing a rope writes its total length once, first, then one
\* write_bytes per leaf in in-order sequence and nothing else; so ropes with
\* the same flat bytes feed the hasher the same length and byte stream.
C4_HashShapeFree ==
    last.op = "hash" =>
        LET ev == last.ret
            id == ropes[last.i].data
        IN  /\ Len(ev) = 1 + Len(Leaves(id))
            /\ ev[1] = WriteUsize(Len(Flat(id)))
            /\ \A k \in 2..Len(ev) : ev[k] = WriteBytes(Leaves(id)[k - 1])
            /\ \A j \in 1..Len(ropes) :
                  Flat(ropes[j].data) = Flat(id) =>
                      LET ev2 == Rope_deterministic_hash(ropes[j], <<>>)
                      IN  ev2[1] = ev[1] /\ HashBytes(ev2) = HashBytes(ev)

\* the hashed rope wraps another in a concat, and a differently shaped rope
\* with the same bytes exists
C4_Witness ==
    /\ last.op = "hash"
    /\ HasShared(ropes[last.i].data)
    /\ \E j \in 1..Len(ropes) :
          /\ Flat(ropes[j].data) = Flat(ropes[last.i].data)
          /\ Leaves(ropes[j].data) # Leaves(ropes[last.i].data)
          /\ Len(Flat(ropes[j].data)) >= 2

----------------------------------------------------------------------------
(* C5 *)

\* C5: a fresh reader drained by read with any positive buffer size, by
\* poll_read, or by the slices of next / poll_next, yields the same bytes: the
\* rope's flat bytes.
C5_ModesAgree ==
    last.op = "read_new" =>
        LET st == reader.stack
            flat == Flat(ropes[reader.rope].data)
        IN  /\ DrainNext(st) = flat
            /\ DrainPollNext(st) = flat
            /\ \A w \in 1..MaxWant :
                  DrainRead(st, w) = flat /\ DrainPollRead(st, w) = flat

\* a fresh reader over a nested rope with a leaf longer than the smallest buffer
C5_Witness ==
    /\ last.op = "read_new"
    /\ HasShared(ropes[reader.rope].data)
    /\ Len(Leaves(ropes[reader.rope].data)) >= 3
    /\ \E k \in 1..Len(Leaves(ropes[reader.rope].data)) :
          Len(Leaves(ropes[reader.rope].data)[k]) >= 2
    /\ DrainRead(reader.stack, 1) = Flat(ropes[reader.rope].data)

----------------------------------------------------------------------------
(* C6 *)

C6_ReadStep ==
    (last'.op = "read" /\ last'.n > 0) =>
        LET left == Len(Flat(ropes[reader.rope].data)) - Len(delivered)
        IN  /\ last'.k = Min(last'.n, left)
            /\ Len(last'.out) = last'.k
            /\ last'.k < last'.n => DrainNext(reader'.stack) = <<>>
            /\ last'.k = 0 => left = 0

C6_PollStep ==
    last'.op = "poll_read" =>
        LET r == RopeReader_read(reader.stack, last'.n)
        IN  /\ last'.out = r.out
            /\ reader'.stack = r.stack
            /\ last'.some
            /\ panicked' = ""

\* C6: read into W > 0 bytes returns min(W, bytes not yet delivered), is short
\* only when it exhausts the reader and zero only at the end; poll_read does
\* what read does and is Ready(Ok) at once.
C6_ReadExact == [][C6_ReadStep /\ C6_PollStep]_vars

\* a read that came back short, after an earlier delivery
C6_Witness ==
    /\ last.op = "read" /\ last.n >= 2
    /\ 0 < last.k /\ last.k < last.n
    /\ Len(delivered) > last.k
    /\ HasShared(ropes[reader.rope].data)

----------------------------------------------------------------------------
(* C7 *)

\* the stack a reader is left with once next() has returned None
RECURSIVE EndStack(_)
EndStack(stack) ==
    LET nx == RopeReader_next(stack)
    IN  IF nx.some THEN EndStack(nx.stack) ELSE nx.stack

RECURSIVE SlicesPollNext(_)
SlicesPollNext(stack) ==
    LET nx == RopeReader_poll_next(stack)
    IN  IF nx.some THEN <<nx.b>> \o SlicesPollNext(nx.stack) ELSE <<>>

\* C7: on a fresh reader next / poll_next return the leaves of the tree in
\* in-order sequence, one non-empty slice per leaf, and None ever after.
C7_NextYieldsLeaves ==
    last.op = "read_new" =>
        LET st == reader.stack
            leaves == Leaves(ropes[reader.rope].data)
            end == EndStack(st)
        IN  /\ SlicesNext(st) = leaves
            /\ SlicesPollNext(st) = leaves
            /\ \A k \in 1..Len(leaves) : leaves[k] # <<>>
            /\ ~RopeReader_next(end).some
            /\ RopeReader_next(end).stack = end

\* a fresh reader over a store [leaf, branch, leaf] with unlike neighbours
C7_Witness ==
    /\ last.op = "read_new"
    /\ LET els == stores[ropes[reader.rope].data]
       IN  /\ Len(els) = 3
           /\ els[1].t = "Local" /\ els[2].t = "Shared" /\ els[3].t = "Local"
           /\ Flat(els[2].r) # els[1].b
           /\ Flat(els[2].r) # els[3].b
           /\ Len(SlicesNext(reader.stack)) = 3

----------------------------------------------------------------------------
(* C8 *)

C8_PeekStep ==
    last'.op = "fill_buf" =>
        /\ DrainNext(reader'.stack) = DrainNext(reader.stack)
        /\ delivered' = delivered
        /\ (last'.out = <<>>) <=> (DrainNext(reader.stack) = <<>>)
        /\ last.op = "fill_buf" => last'.out = last.out

\* C8: a peek consumes nothing: it leaves the bytes still to come unchanged,
\* a peek right after a peek returns the same bytes, and the buffer is empty
\* exactly when no bytes are left.
C8_PeekKeeps == [][C8_PeekStep]_vars

\* a peek in mid-stream that returned bytes
C8_Witness ==
    /\ last.op = "fill_buf" /\ last.out # <<>>
    /\ delivered # <<>>
    /\ Len(reader.stack) >= 2
    /\ Top(reader.stack).t = "Local"

----------------------------------------------------------------------------
(* C9 *)

C9_ConsumeStep ==
    last'.op = "consume" =>
        LET st == reader.stack
            n == last'.n
        IN  IF st # <<>> /\ Top(st).t = "Local"
            THEN LET b == Top(st).b
                 IN  n <= Len(b) =>
                        /\ panicked' = ""
                        /\ delivered' = delivered \o SubSeq(b, 1, n)
                        /\ n = Len(b) => reader'.stack = Pop(st)
                        /\ n < Len(b) =>
                              /\ Pop(reader'.stack) = Pop(st)
                              /\ RopeReader_fill_buf(reader'.stack).buf
                                     = SubSeq(b, n + 1, Len(b))
            ELSE reader' = reader /\ delivered' = delivered /\ panicked' = ""

\* C9: consume(n), n <= L, on a leaf frame of L bytes removes its first n
\* bytes: the frame is popped when n = L, else the next peek returns the other
\* L - n bytes; on an empty stack or a branch frame it does nothing, silently.
C9_ConsumeExact == [][C9_ConsumeStep]_vars

\* a consume that took part of a peeked slice
C9_Witness ==
    /\ last.op = "consume" /\ last.n > 0 /\ last.k = last.n
    /\ reader.stack # <<>>
    /\ Top(reader.stack).t = "Local"
    /\ Len(reader.stack) >= 2

----------------------------------------------------------------------------
(* C10 *)

C10_EmptyCall ==
    \/ last'.op \in {"push_bytes", "push_static_bytes"} /\ last'.b = <<>>
    \/ last'.op = "concat" /\ Rope_len(ropes[last'.n]) = 0

C10_Step == C10_EmptyCall => builder' = builder /\ pushed' = pushed

C10_EmptyBuild ==
    \A i \in 1..Len(ropes) :
        (made[i].how = "build" /\ made[i].input = <<>>) =>
            ~RopeReader_next(RopeReader_new(ropes[i].data)).some

\* C10: pushing an empty owned buffer or an empty static string, or
\* concatenating an empty rope, leaves the builder as it was; a builder that
\* got nothing else builds a rope whose first next() is None.
C10_EmptyIsNoOp == [][C10_Step]_vars /\ []C10_EmptyBuild

\* an empty rope concatenated into a builder that holds committed and pending
\* bytes
C10_Witness ==
    /\ last.op = "concat" /\ Rope_len(ropes[last.n]) = 0
    /\ builder.live
    /\ builder.committed # <<>>
    /\ builder.uncommited.t # "None"

----------------------------------------------------------------------------
(* C11 *)

\* C11: a rope, however it was made, has length 0 exactly when its segment
\* store has no segment; such a rope's reader starts with an empty stack and
\* its first next() is None, its hash writes the length 0 and nothing else, and
\* it equals every other empty rope.
C11_EmptyCanonical ==
    \A i \in 1..Len(ropes) :
        /\ Rope_len(ropes[i]) = 0 <=> stores[ropes[i].data] = <<>>
        /\ Rope_is_empty(ropes[i]) =>
              /\ RopeReader_new(ropes[i].data) = <<>>
              /\ ~RopeReader_next(RopeReader_new(ropes[i].data)).some
              /\ Rope_deterministic_hash(ropes[i], <<>>) = <<WriteUsize(0)>>
              /\ \A j \in 1..Len(ropes) :
                    InnerRope_eq(ropes[i].data, ropes[j].data)
                        <=> Rope_is_empty(ropes[j])

\* an empty rope built from empty pushes next to an empty rope from Rope::from
\* or deserialize
C11_Witness ==
    \E i, j \in 1..Len(ropes) :
        /\ made[i].how = "build" /\ made[j].how \in {"from", "deserialize"}
        /\ Rope_is_empty(ropes[i]) /\ Rope_is_empty(ropes[j])
        /\ ropes[i].data # ropes[j].data
        /\ InnerRope_eq(ropes[i].data, ropes[j].data)

----------------------------------------------------------------------------
(* C12 *)

\* C12: to_str returns the rope's flat bytes as a string when they are valid
\* UTF-8 and fails exactly when the flat bytes as a whole are not, whatever
\* the tree shape and the path taken; a character split across two leaves
\* does not make it fail.
C12_ToStrWholeBytes ==
    last.op = "to_str" =>
        LET flat == Flat(ropes[last.i].data)
        IN  /\ last.ret.ok <=> Utf8Valid(flat)
            /\ last.ret.ok => last.ret.s = flat
            /\ ~last.ret.ok => last.ret = StrErr

\* a successful to_str of a rope of several leaves, one of which ends in the
\* middle of a character
C12_Witness ==
    /\ last.op = "to_str" /\ last.ret.ok
    /\ LET leaves == Leaves(ropes[last.i].data)
       IN  /\ Len(leaves) >= 2
           /\ \E k \in 1..Len(leaves) : ~Utf8Valid(leaves[k])

----------------------------------------------------------------------------
(* C13 *)

\* C13: for any rope, serialize emits a form, and deserialize of that form
\* yields a rope that is byte-equal to the original.
C13_RoundTrip ==
    /\ last.op = "serialize" =>
          /\ last.ret.ok
          /\ last.ret.wire = Flat(ropes[last.i].data)
    /\ last.op = "round_trip" =>
          /\ InnerRope_eq(ropes[last.i].data, ropes[last.n].data)
          /\ Flat(ropes[last.n].data) = Flat(ropes[last.i].data)
          /\ Rope_len(ropes[last.n]) = Rope_len(ropes[last.i])

\* the round trip of the ropes serialize accepts: when the flat bytes are
\* valid UTF-8 the form is the flat bytes and the rope read back is equal, a
\* single leaf or the empty rope; otherwise serialize fails and emits nothing
C13_RoundTripOfStrings ==
    /\ last.op = "serialize" =>
          LET flat == Flat(ropes[last.i].data)
          IN  /\ last.ret.ok <=> Utf8Valid(flat)
              /\ last.ret.ok => last.ret.wire = flat
              /\ ~last.ret.ok => last.ret.wire = <<>> /\ last.ret.err = StrErr.err
    /\ last.op = "round_trip" =>
          /\ InnerRope_eq(ropes[last.i].data, ropes[last.n].data)
          /\ Flat(ropes[last.n].data) = Flat(ropes[last.i].data)
          /\ Rope_len(ropes[last.n]) = Rope_len(ropes[last.i])
          /\ Len(stores[ropes[last.n].data]) <= 1
          /\ ~HasShared(ropes[last.n].data)

\* a nested rope of several leaves read back as a single leaf
C13_Witness ==
    /\ last.op = "round_trip"
    /\ HasShared(ropes[last.i].data)
    /\ Len(Leaves(ropes[last.i].data)) >= 2
    /\ Len(stores[ropes[last.n].data]) = 1

----------------------------------------------------------------------------
(* C14 *)

\* the ropes of the three groupings of a, b, c: flat, (a b) c, a (b c)
Grouped == {3, 4, 5}

\* C14: the rope built by pushing a, b, c, the rope built by concatenating
\* build(a, b) and pushing c, and the rope built by pushing a and
\* concatenating build(b, c) have the same flat bytes a b c and the same
\* length, are equal to each other, and feed the hasher the same length and
\* the same bytes.
C14_Associative ==
    \A i, j \in Grouped :
        (i <= Len(ropes) /\ j <= Len(ropes)) =>
            LET abc == fuel.abc[1] \o fuel.abc[2] \o fuel.abc[3]
                hi == Rope_deterministic_hash(ropes[i], <<>>)
                hj == Rope_deterministic_hash(ropes[j], <<>>)
            IN  /\ DrainNext(RopeReader_new(ropes[i].data)) = abc
                /\ Flat(ropes[i].data) = abc
                /\ Rope_len(ropes[i]) = Len(abc)
                /\ Rope_len(ropes[i]) = Rope_len(ropes[j])
                /\ InnerRope_eq(ropes[i].data, ropes[j].data)
                /\ hi[1] = hj[1] /\ HashBytes(hi) = HashBytes(hj)
                /\ (last.op = "eq" /\ last.i = i /\ last.j = j) => last.ret

\* the three groupings of three non-empty strings, built into three trees of
\* different shapes and compared
C14_Witness ==
    /\ Len(ropes) = 5
    /\ \A k \in 1..3 : fuel.abc[k] # <<>>
    /\ fuel.abc[1] # fuel.abc[2]
    /\ stores[ropes[3].data] # stores[ropes[4].data]
    /\ Len(stores[ropes[3].data]) = 1
    /\ stores[ropes[4].data][1].t = "Shared"
    /\ stores[ropes[5].data][2].t = "Shared"
    /\ last.op = "eq" /\ last.i = 4 /\ last.j = 5 /\ last.ret

----------------------------------------------------------------------------
(* C15 *)

\* no step changes a rope that exists: its length, its store, its flat bytes
C15_RopesFixed ==
    \A i \in 1..Len(ropes) :
        /\ ropes'[i] = ropes[i]
        /\ stores'[ropes[i].data] = stores[ropes[i].data]
        /\ Flat(ropes[i].data)' = Flat(ropes[i].data)

\* a builder call leaves both readers alone; a call on one reader leaves the
\* other reader alone
C15_OwnStack ==
    /\ last'.op \in {"default", "push_bytes", "concat", "finish", "build"} =>
          reader' = reader /\ delivered' = delivered
    /\ last'.op \in {"next", "read", "fill_buf", "consume"} =>
          /\ reader'.parked = reader.parked
          /\ builder' = builder
    /\ last'.op = "read_new" =>
          \A k \in 1..Len(reader'.parked) :
              reader'.parked[k] = [stack |-> reader.stack, delivered |-> delivered]

\* what a reader has handed out and what it still holds make up the rope
C15_Complete ==
    reader.live =>
        LET flat == Flat(ropes[reader.rope].data)
        IN  /\ delivered \o DrainNext(reader.stack) = flat
            /\ \A k \in 1..Len(reader.parked) :
                  reader.parked[k].delivered \o DrainNext(reader.parked[k].stack)
                      = flat

\* C15: with two readers over one rope and a builder that concatenated the
\* rope, under every interleaving of their calls the rope's length and flat
\* bytes never change, a reader's stack changes only by that reader's calls,
\* and each reader, once drained, has handed out the rope's flat bytes in
\* order.
C15_Isolation == [][C15_RopesFixed /\ C15_OwnStack]_vars /\ []C15_Complete

\* both readers drained after taking turns, while a builder that concatenated
\* the rope holds bytes pushed after it
C15_Witness ==
    /\ reader.live /\ reader.parked # <<>>
    /\ LET flat == Flat(ropes[reader.rope].data)
       IN  /\ Len(flat) >= 2
           /\ delivered = flat /\ reader.stack = <<>>
           /\ reader.parked[1].delivered = flat /\ reader.parked[1].stack = <<>>
    /\ builder.live
    /\ \E k \in 1..Len(builder.committed) :
          builder.committed[k] = Shared(ropes[reader.rope].data)
    /\ builder.uncommited.t # "None"

----------------------------------------------------------------------------
(* C16 *)

C16_FinishStep ==
    last'.op \in {"finish", "flush"} =>
        /\ builder'.uncommited = Uncommitted_None
        /\ RopeBuilder_len(builder') = RopeBuilder_len(builder)
        /\ RopeBuilder_finish(builder') = builder'
        /\ last.op \in {"finish", "flush"} => builder' = builder

\* C16: after finish, or flush, the pending region is empty; a second finish
\* right after it leaves the committed list, the committed length and the
\* pending region as they are; and finish never changes len().
C16_FinishIdempotent == [][C16_FinishStep]_vars

\* a finish that committed pending bytes behind an earlier leaf
C16_Witness ==
    /\ last.op \in {"finish", "flush"}
    /\ builder.live
    /\ Len(builder.committed) >= 2
    /\ builder.committed[Len(builder.committed)].t = "Local"
    /\ builder.length = Len(pushed)

----------------------------------------------------------------------------
(* C17 *)

\* C17: len() of a builder is the number of bytes it has accepted so far from
\* its constructor and from every push_bytes, push_static_bytes, write and
\* concat, committed or not, and is_empty() is true exactly when that is zero.
C17_LenIsAccepted ==
    builder.live =>
        /\ RopeBuilder_len(builder) = Len(pushed)
        /\ RopeBuilder_is_empty(builder) <=> Len(pushed) = 0
        /\ builder.length + Uncommitted_len(builder.uncommited) = Len(pushed)

\* a builder whose bytes are partly committed and partly pending as a static
\* string
C17_Witness ==
    /\ builder.live
    /\ builder.length > 0
    /\ builder.uncommited.t = "Static"
    /\ RopeBuilder_len(builder) > builder.length

----------------------------------------------------------------------------
(* C18 *)

\* the leaf a pending region is committed as
PendingLeaf(u) ==
    IF u.t = "Static" THEN Local(Bytes_from_static(u.b))
    ELSE Local(Bytes_from_vec(u.b))

C18_ConcatStep ==
    (last'.op = "concat" /\ Rope_len(ropes[last'.n]) > 0) =>
        LET other == ropes[last'.n]
            pend == builder.uncommited
            before == IF pend.t = "None" THEN builder.committed
                      ELSE Append(builder.committed, PendingLeaf(pend))
        IN  /\ builder'.committed = Append(before, Shared(other.data))
            /\ builder'.length
                   = builder.length + Uncommitted_len(pend) + Rope_len(other)
            /\ builder'.uncommited = Uncommitted_None
            /\ Len(builder'.committed) <= Len(builder.committed) + 2
            /\ stores' = stores /\ ropes' = ropes

\* C18: concat of a non-empty rope commits the pending region, if any, as one
\* leaf, then appends one branch that refers to the other rope's own store,
\* adds the other rope's length to the committed length and leaves the pending
\* region empty: at most two more segments, whatever the other rope holds.
C18_ConcatOneBranch == [][C18_ConcatStep]_vars

\* a concat that committed pending bytes and then the branch
C18_Witness ==
    /\ last.op = "concat" /\ Rope_len(ropes[last.n]) > 0
    /\ builder.live
    /\ Len(builder.committed) >= 2
    /\ builder.committed[Len(builder.committed) - 1].t = "Local"
    /\ builder.committed[Len(builder.committed)] = Shared(ropes[last.n].data)

----------------------------------------------------------------------------
(* C19 *)

C19_StaticStep ==
    (last'.op = "push_static_bytes" /\ last'.b # <<>>) =>
        LET bytes == last'.b
            pend == builder.uncommited
            before == IF pend.t = "None" THEN builder.committed
                      ELSE Append(builder.committed, PendingLeaf(pend))
        IN  IF Len(bytes) >= BytesSize
            THEN /\ builder'.committed
                        = Append(before, [t |-> "Local", b |-> bytes, mem |-> "static"])
                 /\ builder'.length
                        = builder.length + Uncommitted_len(pend) + Len(bytes)
                 /\ builder'.uncommited = Uncommitted_None
            ELSE /\ builder'.committed = builder.committed
                 /\ builder'.length = builder.length
                 /\ builder'.uncommited # Uncommitted_None

\* C19: a static push of at least the inline threshold, the threshold itself
\* included, commits the pending region as a leaf of its own, then appends a
\* leaf that is the static memory itself, adds its length to the committed
\* length and leaves the pending region empty; a static push below the
\* threshold commits nothing when it is made.
C19_LargeStaticLeaf == [][C19_StaticStep]_vars

\* a static push of exactly the threshold behind pending bytes
C19_Witness ==
    /\ last.op = "push_static_bytes" /\ Len(last.b) = BytesSize
    /\ builder.live
    /\ Len(builder.committed) >= 2
    /\ builder.committed[Len(builder.committed) - 1].t = "Local"
    /\ builder.committed[Len(builder.committed)].mem = "static"
    /\ builder.uncommited = Uncommitted_None

----------------------------------------------------------------------------
(* C20 *)

\* how often the traversal created the visitor of factory f and ran it on n
TimesRun(f, n) ==
    Cardinality({i \in 1..Len(visit.applied) :
                     visit.applied[i] = [factory |-> f, node |-> n]})

Visited == visit.pc = "visited"

\* the node a path leads to has one of the types ApplyVisitors has a method for
OfHookedType(n) == n # <<>> /\ n[Len(n)] \in HookedKinds

\* C20: once the traversal is over, every registered visitor has been created
\* and run exactly once on each node of the tree whose path from the root
\* equals its registered path, and on no other node; a visitor whose path is
\* the path of no node has not been run at all.
C20_AppliedIffPathEqual ==
    Visited =>
        \A f \in 1..Len(visit.reg) : \A n \in visit.tree :
            TimesRun(f, n) = IF visit.reg[f].path = n THEN 1 ELSE 0

\* what the traversal does keep: a visitor is only ever run on the node its
\* path names, and, when the traversal ends without a panic, exactly once if
\* that node has a hooked type and never otherwise.
C20_AppliedAtHookedNodes ==
    Visited =>
        /\ \A i \in 1..Len(visit.applied) :
               /\ visit.applied[i].node \in visit.tree
               /\ visit.applied[i].node = visit.reg[visit.applied[i].factory].path
        /\ panicked = "" =>
               \A f \in 1..Len(visit.reg) : \A n \in visit.tree :
                   TimesRun(f, n) = IF visit.reg[f].path = n /\ OfHookedType(n)
                                    THEN 1 ELSE 0

\* two visitors on one branch: the one registered for the leaf, of a hooked
\* type, has been run there once; the one registered for its parent, a node of
\* a type without a method, exists in the tree and has never been run
C20_Witness ==
    /\ Visited /\ panicked = ""
    /\ visit.tree = Module({<<1, 2, 1>>})
    /\ Len(visit.reg) = 2
    /\ visit.reg[1].path = <<1, 2>> /\ visit.reg[2].path = <<1, 2, 1>>
    /\ ~OfHookedType(<<1, 2>>)
    /\ TimesRun(1, <<1, 2>>) = 0
    /\ TimesRun(2, <<1, 2, 1>>) = 1
    /\ Len(visit.applied) = 1

----------------------------------------------------------------------------
(* C21 *)

\* a segment that must not be in a store: an empty leaf, or a branch to a
\* store without segments
EmptySegment(el) ==
    \/ el.t = "Local" /\ el.b = <<>>
    \/ el.t = "Shared" /\ stores[el.r] = <<>>

\* the debug assertions of InnerRope::from, RopeBuilder::finish and
\* RopeReader::next
DebugAssertions ==
    {"must not have empty Bytes", "must not have empty InnerRope",
     "must not have empty uncommitted bytes", "must not have empty Bytes section"}

\* the panic, if any, of calling next() on a reader until it returns None
RECURSIVE NextPanic(_)
NextPanic(stack) ==
    LET nx == RopeReader_next(stack)
    IN  IF nx.panic # "" THEN nx.panic
        ELSE IF nx.some THEN NextPanic(nx.stack) ELSE ""

\* C21: no committed segment list of a builder and no segment store of a rope
\* holds an empty leaf or a branch to a store without segments; no debug
\* assertion of InnerRope::from, finish or next has fired, and reading any rope
\* to its end with next() fires none.
C21_NoEmptySegments ==
    /\ \A k \in 1..Len(builder.committed) : ~EmptySegment(builder.committed[k])
    /\ \A id \in 1..Len(stores) :
           \A k \in 1..Len(stores[id]) : ~EmptySegment(stores[id][k])
    /\ panicked \notin DebugAssertions
    /\ builder.panic \notin DebugAssertions
    /\ \A i \in 1..Len(ropes) : NextPanic(RopeReader_new(ropes[i].data)) = ""

\* a builder with a committed leaf has just been handed an empty rope by
\* concat: its committed list is as it was
C21_Witness ==
    /\ builder.live
    /\ last.op = "concat" /\ stores[ropes[last.n].data] = <<>>
    /\ builder.committed # <<>>
    /\ \A k \in 1..Len(builder.committed) : builder.committed[k].t = "Local"

----------------------------------------------------------------------------
(* C22 *)

\* C22: in every builder, however it was constructed, a pending region that
\* is a static hold or an owned scratch holds at least one byte, and an empty
\* pending region is None; so a finish at that point commits no empty leaf and
\* does not fire its assertion.
C22_PendingNotEmpty ==
    builder.live =>
        /\ builder.uncommited.t \in {"Static", "Owned"} => Len(builder.uncommited.b) >= 1
        /\ Uncommitted_len(builder.uncommited) = 0 <=> builder.uncommited = Uncommitted_None
        /\ LET f == RopeBuilder_finish(builder)
           IN  /\ f.panic = ""
               /\ \A k \in 1..Len(f.committed) :
                      f.committed[k].t = "Local" => f.committed[k].b # <<>>

\* a builder just constructed from an empty Vec<u8>: nothing is pending
C22_Witness ==
    /\ builder.live
    /\ last.op = "from_vec" /\ last.b = <<>>
    /\ builder.uncommited = Uncommitted_None
    /\ builder.committed = <<>>

----------------------------------------------------------------------------
(* C23 *)

\* the step is a push of owned bytes, not empty
OwnedPush == last'.op \in {"push_bytes", "write"} /\ last'.b # <<>>

\* the step is a push of a static string, not empty, below the inline threshold
SmallStaticPush ==
    last'.op = "push_static_bytes" /\ last'.b # <<>> /\ Len(last'.b) < BytesSize

C23_PendingStep ==
    (OwnedPush \/ SmallStaticPush) =>
        LET pend == builder.uncommited
            b == last'.b
        IN  /\ pend.t = "None" /\ OwnedPush
                => builder'.uncommited = [t |-> "Owned", b |-> b]
            /\ pend.t = "None" /\ SmallStaticPush
                => builder'.uncommited = [t |-> "Static", b |-> b]
            /\ pend.t \in {"Static", "Owned"}
                => builder'.uncommited = [t |-> "Owned", b |-> pend.b \o b]
            /\ builder'.committed = builder.committed
            /\ builder'.length = builder.length
            /\ pend.t \in {"Static", "Owned"}
                => RopeBuilder_finish(builder').committed
                       = Append(builder.committed,
                                Local(Bytes_from_vec(pend.b \o b)))

\* C23: a non-empty owned push and a static push below the inline threshold
\* move the pending region None -> Owned b (owned) or Static b (static), and
\* Static s or Owned v -> Owned holding the old bytes followed by b; the
\* committed list and the committed length stay as they are, and the bytes of
\* two adjacent such pushes are committed as one owned leaf.
C23_PendingTransitions == [][C23_PendingStep]_vars

\* a static string one byte short of the threshold pushed onto pending bytes
C23_Witness ==
    /\ builder.live
    /\ last.op = "push_static_bytes" /\ Len(last.b) = BytesSize - 1
    /\ builder.uncommited.t = "Owned"
    /\ Len(builder.uncommited.b) > Len(last.b)
    /\ builder.committed = <<>>

----------------------------------------------------------------------------
(* C24 *)

\* the step is a push of a non-empty static string onto a pending region that
\* holds bytes
StaticPushOntoPending ==
    /\ last'.op = "push_static_bytes" /\ last'.b # <<>>
    /\ builder.uncommited.t \in {"Static", "Owned"}

\* the pending region takes the string and nothing is committed
JoinsPending ==
    /\ builder'.uncommited =
           [t |-> "Owned", b |-> builder.uncommited.b \o last'.b]
    /\ builder'.committed = builder.committed
    /\ builder'.length = builder.length

\* the pending region is committed as a leaf of its own kind, then the string
\* as a leaf that borrows the static memory
CommitsBoth ==
    /\ builder'.uncommited = Uncommitted_None
    /\ builder'.committed =
           builder.committed \o
               << Local(IF builder.uncommited.t = "Static"
                        THEN Bytes_from_static(builder.uncommited.b)
                        ELSE Bytes_from_vec(builder.uncommited.b)),
                  Local(Bytes_from_static(last'.b)) >>
    /\ builder'.length =
           builder.length + Len(builder.uncommited.b) + Len(last'.b)

\* a static push of any size onto a Static or Owned pending region joins the
\* pending region and commits nothing
C24_AnySize == [][StaticPushOntoPending => JoinsPending]_vars

\* C24: a non-empty static push onto a Static or Owned pending region joins
\* the pending region, which becomes Owned holding the old bytes followed by
\* the string, and commits nothing, when the string is shorter than the inline
\* threshold; at or above the threshold the pending region is committed as a
\* leaf, the string is committed after it as a static leaf, and the pending
\* region is None.
C24_BySize ==
    [][StaticPushOntoPending =>
          IF Len(last'.b) < BytesSize THEN JoinsPending ELSE CommitsBoth]_vars

\* a string of threshold length was pushed while bytes were pending
C24_Witness ==
    /\ builder.live
    /\ last.op = "push_static_bytes" /\ Len(last.b) = BytesSize
    /\ builder.uncommited = Uncommitted_None
    /\ Len(builder.committed) = 2
    /\ builder.committed[1].t = "Local"
    /\ builder.committed[2] = Local(Bytes_from_static(last.b))
    /\ pushed = builder.committed[1].b \o last.b

----------------------------------------------------------------------------
(* C25 *)

\* Builders that only receive static strings below the inline threshold.
MaxRopesStatic == 2
MaxCallsStatic == 4

\* one string of a single byte 97, one of a single byte 99, and the longest
\* string below the threshold (of bytes 98)
SmallStaticInputs == {<<>>, <<97>>, <<99>>, Lit(BytesSize - 1)}

InitStatic ==
    /\ stores = <<>>
    /\ ropes = <<>>
    /\ builder = NoBuilder
    /\ pushed = <<>>
    /\ fuel = [calls |-> MaxCallsStatic, ropes |-> MaxRopesStatic]
    /\ reader = NoReader
    /\ delivered = <<>>
    /\ made = <<>>
    /\ last = OpRec("init", <<>>, 0)
    /\ panicked = ""
    /\ visit = NoVisit

NextStatic ==
    \/ NewBuilder
    \/ \E s \in SmallStaticInputs : BuilderFromStatic(s)
    \/ \E s \in SmallStaticInputs : PushStaticBytes(s)
    \/ Build

SpecStatic == InitStatic /\ [][NextStatic]_vars

\* the number of non-empty strings of SmallStaticInputs that were pushed to
\* give these bytes: each 97 and each 99 is one push, the 98s come 31 at a time
NonEmptyPushes(bytes) ==
    Cardinality({k \in 1..Len(bytes) : bytes[k] # 98})
        + (Cardinality({k \in 1..Len(bytes) : bytes[k] = 98}) \div (BytesSize - 1))

\* building after one or more small static pushes gives a single owned leaf
C25_AlwaysOwned ==
    \A i \in 1..Len(ropes) :
        NonEmptyPushes(made[i].input) >= 1
            => stores[ropes[i].data] = <<Local(Bytes_from_vec(made[i].input))>>

\* C25: building a builder that received only static pushes below the inline
\* threshold gives a rope of a single owned leaf holding the pushes in order
\* when two or more of them were non-empty, a rope of a single leaf that
\* borrows the static string when exactly one was non-empty, and the empty
\* rope when none was.
C25_OwnedFromSecondPush ==
    \A i \in 1..Len(ropes) :
        LET n == NonEmptyPushes(made[i].input)
            els == stores[ropes[i].data]
        IN  /\ made[i].how = "build"
            /\ ropes[i].length = Len(made[i].input)
            /\ n >= 2 => els = <<Local(Bytes_from_vec(made[i].input))>>
            /\ n = 1 => els = <<Local(Bytes_from_static(made[i].input))>>
            /\ n = 0 => els = <<>>

\* a rope built from three small static strings, and one built from one
C25_Witness ==
    \E i, j \in 1..Len(ropes) :
        /\ NonEmptyPushes(made[i].input) = 3
        /\ Len(made[i].input) > BytesSize
        /\ stores[ropes[i].data] = <<Local(Bytes_from_vec(made[i].input))>>
        /\ NonEmptyPushes(made[j].input) = 1
        /\ stores[ropes[j].data][1].mem = "static"

----------------------------------------------------------------------------
(* C26 *)

\* one iteration of the loop of Iterator::next: [stack, returned, some, panic]
RopeReader_next_iteration(stack) ==
    IF stack = <<>>
    THEN [stack |-> stack, returned |-> TRUE, some |-> FALSE, panic |-> ""]
    ELSE LET top == Top(stack)
             rest == Pop(stack)
         IN  IF top.t = "Local"
             THEN [stack |-> rest, returned |-> TRUE, some |-> TRUE,
                   panic |-> DebugAssert(top.b # <<>>,
                                 "must not have empty Bytes section", "")]
             ELSE LET inner == stores[top.r]
                  IN  IF top.i >= Len(inner)
                      THEN [stack |-> rest, returned |-> TRUE, some |-> FALSE,
                            panic |-> "index out of bounds"]
                      ELSE LET el == inner[top.i + 1]
                               index == top.i + 1
                               s1 == IF index < Len(inner)
                                     THEN Append(rest, StackShared(top.r, index))
                                     ELSE rest
                           IN  [stack |-> Append(s1, StackElem_from(el)),
                                returned |-> FALSE, some |-> FALSE, panic |-> ""]

\* the iterations next() still has to make to pass these segments: two for a
\* leaf (take it from its store, return it), one for a branch and then those
\* of its store
RECURSIVE ElemsWeight(_)
ElemsWeight(els) ==
    IF els = <<>> THEN 0
    ELSE (IF Head(els).t = "Local" THEN 2
          ELSE 1 + ElemsWeight(stores[Head(els).r]))
             + ElemsWeight(Tail(els))

FrameWeight(fr) ==
    IF fr.t = "Local" THEN 1
    ELSE ElemsWeight(SubSeq(stores[fr.r], fr.i + 1, Len(stores[fr.r])))

RECURSIVE StackWeight(_)
StackWeight(stack) ==
    IF stack = <<>> THEN 0
    ELSE FrameWeight(Top(stack)) + StackWeight(Pop(stack))

\* the iteration replaced the branch frame on top by one with the next index,
\* or dropped it at the end of its store, and pushed the segment it took
AdvancesBranch(stack, new) ==
    LET top == Top(stack)
    IN  /\ top.t = "Shared"
        /\ new # <<>>
        /\ \/ /\ top.i + 1 < Len(stores[top.r])
              /\ Pop(new) = Append(Pop(stack), StackShared(top.r, top.i + 1))
           \/ /\ top.i + 1 = Len(stores[top.r])
              /\ Pop(new) = Pop(stack)

\* every iteration of one call of next() returns, or advances a branch index
\* and leaves less to do
RECURSIVE IterationsProgress(_)
IterationsProgress(stack) ==
    IF RopeReader_next_iteration(stack).returned THEN TRUE
    ELSE /\ AdvancesBranch(stack, RopeReader_next_iteration(stack).stack)
         /\ StackWeight(RopeReader_next_iteration(stack).stack)
                = StackWeight(stack) - 1
         /\ IterationsProgress(RopeReader_next_iteration(stack).stack)

\* the result of next() is the result of the iteration that returns
RECURSIVE IterateToReturn(_)
IterateToReturn(stack) ==
    IF RopeReader_next_iteration(stack).returned
    THEN RopeReader_next_iteration(stack)
    ELSE IterateToReturn(RopeReader_next_iteration(stack).stack)

\* the same for every call of next() until the end of the stream
RECURSIVE AllNextsProgress(_)
AllNextsProgress(stack) ==
    /\ IterationsProgress(stack)
    /\ IterateToReturn(stack).stack = RopeReader_next(stack).stack
    /\ IterateToReturn(stack).some = RopeReader_next(stack).some
    /\ RopeReader_next(stack).some /\ RopeReader_next(stack).panic = ""
           => AllNextsProgress(RopeReader_next(stack).stack)

\* the number of calls of next() that return a slice before one returns None
RECURSIVE SuccessfulNexts(_)
SuccessfulNexts(stack) ==
    IF RopeReader_next(stack).some /\ RopeReader_next(stack).panic = ""
    THEN 1 + SuccessfulNexts(RopeReader_next(stack).stack)
    ELSE 0

\* every iteration of the loop of eq returns, or consumes one byte or more
\* from both readers
RECURSIVE EqLoopProgress(_, _)
EqLoopProgress(left, right) ==
    LET fa == RopeReader_fill_buf(left)
        fb == RopeReader_fill_buf(right)
        len == Min(Len(fa.buf), Len(fb.buf))
        ca == RopeReader_consume(fa.stack, len)
        cb == RopeReader_consume(fb.stack, len)
    IN  IF len = 0 \/ SubSeq(fa.buf, 1, len) # SubSeq(fb.buf, 1, len) THEN TRUE
        ELSE /\ ca.panic = "" /\ cb.panic = ""
             /\ Len(Remaining(ca.stack)) = Len(Remaining(left)) - len
             /\ Len(Remaining(cb.stack)) = Len(Remaining(right)) - len
             /\ EqLoopProgress(ca.stack, cb.stack)

\* C26: reading terminates.  For every rope, next() on a new reader returns a
\* slice exactly as many times as the tree has leaves in in-order traversal
\* (a store counted once per branch that refers to it) and then returns None
\* without a panic; every iteration of the loop of next(), from a new reader
\* and from the reader in use, returns or advances the index of the branch
\* frame on top and leaves one iteration less to do; every iteration of the
\* loop of eq over two ropes returns or consumes one byte or more from both
\* readers.
C26_ReadingTerminates ==
    /\ \A i \in 1..Len(ropes) :
           /\ SuccessfulNexts(RopeReader_new(ropes[i].data))
                  = Len(Leaves(ropes[i].data))
           /\ NextPanic(RopeReader_new(ropes[i].data)) = ""
           /\ AllNextsProgress(RopeReader_new(ropes[i].data))
    /\ reader.live /\ panicked = "" => AllNextsProgress(reader.stack)
    /\ \A i, j \in 1..Len(ropes) :
           EqLoopProgress(RopeReader_new(ropes[i].data),
                          RopeReader_new(ropes[j].data))

\* a rope whose store refers twice to the store of another rope, read to the
\* end with next(): the leaves of the other rope were returned twice
C26_Witness ==
    /\ reader.live /\ reader.stack = <<>>
    /\ last.op = "next" /\ ~last.some
    /\ \E k, m \in 1..Len(stores[ropes[reader.rope].data]) :
           /\ k # m
           /\ stores[ropes[reader.rope].data][k].t = "Shared"
           /\ stores[ropes[reader.rope].data][m]
                  = stores[ropes[reader.rope].data][k]
    /\ SuccessfulNexts(RopeReader_new(ropes[reader.rope].data)) >= 2
    /\ delivered = Flat(ropes[reader.rope].data)

----------------------------------------------------------------------------
(* C27 *)

\* the stores the branches of these segments refer to
Refs(els) == {els[k].r : k \in {m \in 1..Len(els) : els[m].t = "Shared"}}

\* the stores reached from a set of stores in n steps or fewer
RECURSIVE ReachIn(_, _)
ReachIn(S, n) ==
    IF n = 0 THEN S
    ELSE ReachIn(S \cup UNION {Refs(stores[id]) : id \in S}, n - 1)

\* C27: the graph of segment stores has no cycle.  Stores are numbered in the
\* order of their construction: every branch of a store, and every branch the
\* builder has committed, refers to a store that exists, and a branch of a
\* store refers to a store constructed before it; no store is reached from
\* its own branches.
C27_StoresAcyclic ==
    /\ \A r \in Refs(builder.committed) : r \in 1..Len(stores)
    /\ \A id \in 1..Len(stores) : \A r \in Refs(stores[id]) : r \in 1..(id - 1)
    /\ \A id \in 1..Len(stores) :
           id \notin ReachIn(Refs(stores[id]), Len(stores))

\* three ropes: the second refers to the first, the third to the second and
\* to the first
C27_Witness ==
    /\ Len(ropes) = 3
    /\ ropes[1].data \in Refs(stores[ropes[2].data])
    /\ {ropes[1].data, ropes[2].data} \subseteq Refs(stores[ropes[3].data])

----------------------------------------------------------------------------
(* C28 *)

\* to_str took the general case on the root store of the rope
GeneralToStr ==
    last.op = "to_str" /\ Len(stores[ropes[last.i].data]) >= 2

\* C28: when to_str takes the general case, the capacity it asks for the
\* output String is the byte length of the rope.
C28_CapacityIsByteLength ==
    GeneralToStr => InnerRope_len(ropes[last.i].data) = ropes[last.i].length

\* to_str of a rope of two segments and more than two bytes gave a string
C28_Witness ==
    /\ GeneralToStr
    /\ InnerRope_len(ropes[last.i].data) = 2
    /\ ropes[last.i].length > 2
    /\ last.ret.ok

----------------------------------------------------------------------------
(* C29 *)

\* C29: after any sequence of next, poll_next, read, poll_read, fill_buf and
\* consume on a reader (consume of more than the slice on top panics and ends
\* the run with the stack as it was), every branch frame of the stack has an
\* index below the number of segments of its store, every leaf frame holds a
\* slice that is not empty, and only the top frame can be a leaf frame; the
\* access inner[index] of next() has never been out of bounds and is not on
\* the next call.
C29_StackInvariant ==
    /\ panicked # "index out of bounds"
    /\ reader.live =>
           /\ \A k \in 1..Len(reader.stack) :
                  /\ reader.stack[k].t = "Shared"
                         => reader.stack[k].i < Len(stores[reader.stack[k].r])
                  /\ reader.stack[k].t = "Local" => reader.stack[k].b # <<>>
                  /\ reader.stack[k].t = "Local" => k = Len(reader.stack)
           /\ RopeReader_next(reader.stack).panic = ""

\* a read stopped inside a slice of a store that the root store refers to: the
\* rest of the slice was pushed back above the frame of the root store, which
\* has moved on to its second segment
C29_Witness ==
    /\ reader.live /\ panicked = ""
    /\ last.op = "read" /\ last.k >= 1
    /\ Len(reader.stack) = 2
    /\ reader.stack[1].t = "Shared" /\ reader.stack[1].i = 1
    /\ reader.stack[2].t = "Local"
    /\ stores[reader.stack[1].r][1].t = "Shared"

----------------------------------------------------------------------------
(* C30 *)

\* q starts with p
IsPrefix(p, q) == Len(p) <= Len(q) /\ SubSeq(q, 1, Len(p)) = p

\* the last call told the caller that the stream is at its end
EndOfStream ==
    \/ last.op \in {"next", "poll_next"} /\ ~last.some
    \/ last.op \in {"read", "poll_read"} /\ last.n > 0 /\ last.k = 0
    \/ last.op = "fill_buf" /\ last.out = <<>>

\* the bytes handed out so far and the bytes still to come are the flat bytes
\* of the rope; at the end of the stream all of them were handed out
DeliveredInOrder ==
    reader.live /\ panicked = "" =>
        /\ IsPrefix(delivered, Flat(ropes[reader.rope].data))
        /\ delivered \o Remaining(reader.stack) = Flat(ropes[reader.rope].data)
        /\ EndOfStream => delivered = Flat(ropes[reader.rope].data)

\* a slice on top of the stack (pushed back by read, fill_buf or consume) is
\* what the next peek or next() returns; consume(n) of a slice of n bytes or
\* more removes its first n bytes
PushedBackStep ==
    reader.live /\ reader.stack # <<>> /\ Top(reader.stack).t = "Local" =>
        /\ last'.op \in {"next", "poll_next", "fill_buf"}
               => last'.out = Top(reader.stack).b
        /\ last'.op = "consume" /\ last'.n <= Len(Top(reader.stack).b)
               => /\ last'.k = last'.n
                  /\ Remaining(reader'.stack)
                         = SubSeq(Remaining(reader.stack), last'.n + 1,
                                  Len(Remaining(reader.stack)))

\* C30: for any interleaving on one reader of next(), reads of any size, peeks
\* and consume(n) of at most the peeked length, the slices returned by next,
\* the bytes copied by read and the bytes removed by consume, in the order of
\* the calls, are a prefix of the flat bytes of the rope, and are the flat
\* bytes once a call reports the end of the stream; the rest of a slice that
\* read pushed back is what the next peek or next() returns.
C30_MixedModeConsistent == []DeliveredInOrder /\ [][PushedBackStep]_vars

\* earlier calls handed out two bytes or more, then a read of one byte stopped
\* inside a slice of two bytes, whose last byte is on top of the stack
C30_Witness ==
    /\ reader.live /\ panicked = ""
    /\ last.op = "read" /\ last.n = 1 /\ last.k = 1
    /\ Len(delivered) >= 3
    /\ reader.stack # <<>> /\ Top(reader.stack).t = "Local"
    /\ Top(reader.stack).b = <<97>>
    /\ IsPrefix(delivered, Flat(ropes[reader.rope].data))

----------------------------------------------------------------------------
(* C31 *)

\* the panic of visitors.first().unwrap() in find_range
EmptyVisitorsPanic == "called Option::unwrap() on a None value"

\* C31: for every registration of one or more visitors, each with a path that
\* is not empty, and every module, no call of find_range made by the traversal
\* is handed an empty slice of visitors: the unwrap of visitors.first() has
\* not panicked.
C31_FindRangeNeverEmpty ==
    visit.reg # <<>> => panicked # EmptyVisitorsPanic

\* what the traversal does keep: when every registered path ends at a node of
\* a type ApplyVisitors has a method for, find_range is never handed an empty
\* slice and never indexes past the end of a path.
C31_HoldsForHookedPaths ==
    (\A f \in 1..Len(visit.reg) : OfHookedType(visit.reg[f].path))
        => panicked \notin {EmptyVisitorsPanic, "index out of bounds"}

\* one visitor, registered for a node of a type without a method that has a
\* child of a hooked type: the traversal reached the child and find_range
\* was called with no visitors left
C31_Witness ==
    /\ Visited
    /\ visit.tree = Module({<<1, 2, 1>>})
    /\ Len(visit.reg) = 1 /\ visit.reg[1].path = <<1, 2>>
    /\ ~OfHookedType(<<1, 2>>) /\ OfHookedType(<<1, 2, 1>>)
    /\ panicked = EmptyVisitorsPanic
    /\ visit.applied = <<>>

====
